---- MODULE Spec2Model ----
(***************************************************************************)
(* Wallet risk agent: deterministic scorer (agent/rules.py), escalation    *)
(* reasoner (agent/llm_reasoning.py) and orchestrator                      *)
(* (agent/orchestrator.py); the end-to-end workflow                        *)
(* (integration/orchestrator.py) and the HTTP server (api_server.py).      *)
(*                                                                         *)
(* Number representation.  Every score contribution of the rule engine is  *)
(* a multiple of 5 and the provider scores enumerated below are multiples  *)
(* of 5, so 0.4*b + 0.6*s is an integer and scores are modelled as exact   *)
(* integers.  Health factors are kept in hundredths (1.05 is 105).         *)
(* Optional values are sequences: <<>> is Python's None, <<v>> is v.       *)
(* processing_time_ms and timestamp (wall clock) are left out.             *)
(***************************************************************************)
EXTENDS Integers, Sequences, FiniteSets, TLC

VARIABLES api_key, op, agent_input, base_risk_score, terms, map_result, stages, provider_outcome, llm_calls, llm_result, status, output

(* the integration layer (integration/orchestrator.py): the position in    *)
(* process_wallet_analysis, its locals and the contract bridge's list      *)
VARIABLES phase, wallet_request, local_result, final_result, phases_run, submitted_at_entry, submitted_results, returned, processed

agent_vars == <<api_key, op, agent_input, base_risk_score, terms, map_result, stages, provider_outcome, llm_calls, llm_result, status, output>>

integration_vars == <<phase, wallet_request, local_result, final_result, phases_run, submitted_at_entry, submitted_results, returned, processed>>

(* the HTTP server (api_server.py): the analyze calls in progress on the    *)
(* module-level orchestrator, each with its own local variables            *)
VARIABLES calls

server_vars == <<calls>>

outer_vars == <<integration_vars, server_vars>>

vars == <<agent_vars, outer_vars>>

----------------------------------------------------------------------------
(* Optional values and Python truthiness *)

None == <<>>

Some(v) == <<v>>

IsNone(x) == x = <<>>

Val(x) == x[1]

Max(a, b) == IF a >= b THEN a ELSE b

Min(a, b) == IF a <= b THEN a ELSE b

Abs(a) == IF a >= 0 THEN a ELSE 0 - a

(* `if signals.ens_name:` -- None and the empty string are both falsy *)
TruthyStr(x) == ~IsNone(x) /\ Val(x) # ""

(* `x and x > k` for an Optional[float]: None and 0 are falsy *)
TruthyGt(x, k) == ~IsNone(x) /\ Val(x) # 0 /\ Val(x) > k

----------------------------------------------------------------------------
(* agent/rules.py : RuleBasedEngine *)

_score_wallet_age(signals) ==
    LET age == signals.age_in_days IN
    IF age < 7 THEN 20
    ELSE IF age < 30 THEN 10
    ELSE IF age < 90 THEN 5
    ELSE IF age > 365 THEN 0 - 10
    ELSE 0

_score_balance(signals) ==
    LET total_balance == signals.current_balance.total_usd IN
      (IF total_balance < 100 THEN 15 ELSE IF total_balance < 1000 THEN 5 ELSE 0)
    + (IF signals.age_in_days < 30 /\ total_balance > 50000 THEN 10 ELSE 0)
    - (IF signals.age_in_days > 365 /\ signals.portfolio_value.total_usd > 100000 THEN 5 ELSE 0)

(* _calculate_velocity_ratio returns last_24h / (last_30d / 30.0), or 1.0    *)
(* when age_days == 0 or last_30d == 0.  The ratio is only ever compared     *)
(* with a constant k, so it is kept as the comparison ratio > k, i.e.        *)
(* 30 * last_24h > k * last_30d for last_30d > 0.                            *)
(* the guard on age_days left out *)
VelocityRatioGt_no_age_guard(velocity, age_days, k) ==
    IF velocity.last_30d = 0
    THEN 1 > k
    ELSE 30 * velocity.last_24h > k * velocity.last_30d

VelocityRatioGt(velocity, age_days, k) ==
    IF age_days = 0 \/ velocity.last_30d = 0
    THEN 1 > k
    ELSE 30 * velocity.last_24h > k * velocity.last_30d

_score_transaction_patterns(signals) ==
    LET velocity == signals.transaction_velocity
        age == signals.age_in_days IN
      (IF VelocityRatioGt(velocity, age, 5) THEN 25
       ELSE IF VelocityRatioGt(velocity, age, 3) THEN 15
       ELSE IF VelocityRatioGt(velocity, age, 2) THEN 10
       ELSE 0)
    + (IF signals.days_since_last_activity > 90 THEN 10 ELSE 0)

_score_suspicious_patterns(signals) ==
    LET patterns == signals.suspicious_patterns IN
      (IF patterns.rapid_draining THEN 30 ELSE 0)
    + (IF patterns.mixer_interaction THEN 25 ELSE 0)
    + (IF patterns.new_wallet_high_value THEN 20 ELSE 0)
    + (IF patterns.unusual_activity THEN 15 ELSE 0)
    + (IF patterns.sanctioned_address_interaction THEN 50 ELSE 0)

(* the reputation signals added to the risk instead of subtracted *)
_score_reputation_added(signals) ==
      (IF TruthyStr(signals.ens_name) THEN 10 ELSE 0)
    + (IF signals.has_gitcoin_passport THEN 15 ELSE 0)
    + (IF signals.has_poap THEN 5 ELSE 0)
    + (IF TruthyGt(signals.on_chain_reputation, 70) THEN 10 ELSE 0)
    + (IF TruthyGt(signals.credit_score, 700) THEN 15 ELSE 0)

_score_reputation(signals) ==
    0 - (IF TruthyStr(signals.ens_name) THEN 10 ELSE 0)
      - (IF signals.has_gitcoin_passport THEN 15 ELSE 0)
      - (IF signals.has_poap THEN 5 ELSE 0)
      - (IF TruthyGt(signals.on_chain_reputation, 70) THEN 10 ELSE 0)
      - (IF TruthyGt(signals.credit_score, 700) THEN 15 ELSE 0)

_score_defi_health(signals) ==
    IF IsNone(signals.lending_borrowing) THEN 0
    ELSE LET health_factor == Val(signals.lending_borrowing).health_factor IN
         IF health_factor < 105 THEN 50
         ELSE IF health_factor < 110 THEN 40
         ELSE IF health_factor < 120 THEN 30
         ELSE IF health_factor < 150 THEN 20
         ELSE IF health_factor < 200 THEN 10
         ELSE 0

(* a paused contract weighted 50 instead of 30 *)
_score_protocol_health_paused_50(protocol) ==
      (IF protocol.default_rate > 10 THEN 25 ELSE IF protocol.default_rate > 5 THEN 15 ELSE 0)
    + (IF protocol.liquidation_events_24h > 20 THEN 20
       ELSE IF protocol.liquidation_events_24h > 10 THEN 10 ELSE 0)
    + (IF protocol.paused_contracts # <<>> THEN 50 ELSE 0)
    + (IF ~protocol.oracle_freshness THEN 25 ELSE 0)
    + (IF protocol.oracle_deviation > 5 THEN 15 ELSE 0)

_score_protocol_health(protocol) ==
      (IF protocol.default_rate > 10 THEN 25 ELSE IF protocol.default_rate > 5 THEN 15 ELSE 0)
    + (IF protocol.liquidation_events_24h > 20 THEN 20
       ELSE IF protocol.liquidation_events_24h > 10 THEN 10 ELSE 0)
    + (IF protocol.paused_contracts # <<>> THEN 30 ELSE 0)
    + (IF ~protocol.oracle_freshness THEN 25 ELSE 0)
    + (IF protocol.oracle_deviation > 5 THEN 15 ELSE 0)

_score_market_volatility(market) ==
      (IF market.volatility_index > 80 THEN 30
       ELSE IF market.volatility_index > 70 THEN 25
       ELSE IF market.volatility_index > 50 THEN 15 ELSE 0)
    + (IF market.flash_crash_detected THEN 30 ELSE 0)
    + (IF market.black_swan_event THEN 40 ELSE 0)
    + (IF market.large_liquidations_in_progress THEN 20 ELSE 0)
    + (IF market.network_congestion = "EXTREME" THEN 10 ELSE 0)

(* the eight contributions in the order calculate_risk_score adds them     *)
(* (lines 34-55)                                                            *)
ScoreTerms(in) ==
    << _score_wallet_age(in.wallet_signals),
       _score_balance(in.wallet_signals),
       _score_transaction_patterns(in.wallet_signals),
       _score_suspicious_patterns(in.wallet_signals),
       _score_reputation(in.wallet_signals),
       _score_defi_health(in.wallet_signals),
       _score_protocol_health(in.protocol_health),
       _score_market_volatility(in.market_volatility) >>

RawScore(in) ==
      _score_wallet_age(in.wallet_signals)
    + _score_balance(in.wallet_signals)
    + _score_transaction_patterns(in.wallet_signals)
    + _score_suspicious_patterns(in.wallet_signals)
    + _score_reputation(in.wallet_signals)
    + _score_defi_health(in.wallet_signals)
    + _score_protocol_health(in.protocol_health)
    + _score_market_volatility(in.market_volatility)

(* the sum returned without the clamp of line 58 *)
calculate_risk_score_unclamped(in) == RawScore(in)

calculate_risk_score(in) == Max(0, Min(100, RawScore(in)))

(* the sanctioned-address check left out *)
_check_critical_blockers_unsanctioned(signals, protocol, market) ==
    \/ /\ ~IsNone(signals.lending_borrowing)
       /\ Val(signals.lending_borrowing).health_factor < 105
       /\ market.volatility_index > 70
    \/ protocol.paused_contracts # <<>>

(* the liquidation check left out *)
_check_critical_blockers_no_liquidation(signals, protocol, market) ==
    \/ signals.suspicious_patterns.sanctioned_address_interaction
    \/ protocol.paused_contracts # <<>>


_check_critical_blockers(signals, protocol, market) ==
    \/ signals.suspicious_patterns.sanctioned_address_interaction
    \/ /\ ~IsNone(signals.lending_borrowing)
       /\ Val(signals.lending_borrowing).health_factor < 105
       /\ market.volatility_index > 70
    \/ protocol.paused_contracts # <<>>

(* an ENS name counted only when it is a non-empty string *)
_has_positive_signals_truthy_ens(signals) ==
    \/ TruthyStr(signals.ens_name)
    \/ signals.has_gitcoin_passport
    \/ signals.age_in_days > 365
    \/ TruthyGt(signals.on_chain_reputation, 70)


_has_positive_signals(signals) ==
    \/ ~IsNone(signals.ens_name)
    \/ signals.has_gitcoin_passport
    \/ signals.age_in_days > 365
    \/ TruthyGt(signals.on_chain_reputation, 70)

_has_negative_signals(signals) ==
    LET patterns == signals.suspicious_patterns IN
    \/ patterns.mixer_interaction
    \/ patterns.rapid_draining
    \/ patterns.unusual_activity
    \/ patterns.new_wallet_high_value

(* the ambiguity test made before the threshold of 80 *)
map_score_to_decision_ambiguity_first(risk_score, signals, protocol, market) ==
    IF _check_critical_blockers(signals, protocol, market) THEN <<"ENFORCE_ACTION", FALSE>>
    ELSE IF risk_score >= 60 /\ _has_positive_signals(signals) /\ _has_negative_signals(signals)
    THEN <<"REQUEST_SEVERITY_ANALYSIS", TRUE>>
    ELSE IF risk_score >= 60 THEN <<"ENFORCE_ACTION", FALSE>>
    ELSE IF risk_score >= 30 THEN <<"MONITOR", FALSE>>
    ELSE <<"NO_ACTION", FALSE>>

(* the medium-risk threshold made strict *)
map_score_to_decision_above_30(risk_score, signals, protocol, market) ==
    IF _check_critical_blockers(signals, protocol, market) THEN <<"ENFORCE_ACTION", FALSE>>
    ELSE IF risk_score >= 80 THEN <<"ENFORCE_ACTION", FALSE>>
    ELSE IF risk_score >= 60 THEN
        IF _has_positive_signals(signals) /\ _has_negative_signals(signals)
        THEN <<"REQUEST_SEVERITY_ANALYSIS", TRUE>>
        ELSE <<"ENFORCE_ACTION", FALSE>>
    ELSE IF risk_score > 30 THEN <<"MONITOR", FALSE>>
    ELSE <<"NO_ACTION", FALSE>>


(* the score thresholds consulted before the critical blockers *)
map_score_to_decision_thresholds_first(risk_score, signals, protocol, market) ==
    IF risk_score >= 80 THEN <<"ENFORCE_ACTION", FALSE>>
    ELSE IF risk_score >= 60 THEN
        IF _has_positive_signals(signals) /\ _has_negative_signals(signals)
        THEN <<"REQUEST_SEVERITY_ANALYSIS", TRUE>>
        ELSE <<"ENFORCE_ACTION", FALSE>>
    ELSE IF risk_score >= 30 THEN <<"MONITOR", FALSE>>
    ELSE IF _check_critical_blockers(signals, protocol, market) THEN <<"ENFORCE_ACTION", FALSE>>
    ELSE <<"NO_ACTION", FALSE>>


(* returns <<decision, needs_llm_analysis>> *)
map_score_to_decision(risk_score, signals, protocol, market) ==
    IF _check_critical_blockers(signals, protocol, market) THEN <<"ENFORCE_ACTION", FALSE>>
    ELSE IF risk_score >= 80 THEN <<"ENFORCE_ACTION", FALSE>>
    ELSE IF risk_score >= 60 THEN
        IF _has_positive_signals(signals) /\ _has_negative_signals(signals)
        THEN <<"REQUEST_SEVERITY_ANALYSIS", TRUE>>
        ELSE <<"ENFORCE_ACTION", FALSE>>
    ELSE IF risk_score >= 30 THEN <<"MONITOR", FALSE>>
    ELSE <<"NO_ACTION", FALSE>>

----------------------------------------------------------------------------
(* JSON values of the provider's response body.  t is the JSON type of the  *)
(* field ("absent" when the key is missing), n its number, s its string.    *)
(* Strings in a numeric field are non-numeric text.                         *)

JAbsent == [t |-> "absent", n |-> 0, s |-> ""]

JNum(v) == [t |-> "num", n |-> v, s |-> ""]

JStr(v) == [t |-> "str", n |-> 0, s |-> v]

JNull == [t |-> "null", n |-> 0, s |-> ""]

(* dict.get(key, default) followed by float(): float("text") raises        *)
(* ValueError, float(None) raises TypeError                                 *)
FloatRaises(j) == j.t \in {"str", "null"}

FloatOf(j, default) == IF j.t = "absent" THEN default ELSE j.n

----------------------------------------------------------------------------
(* agent/llm_reasoning.py : LLMReasoning *)

OverrideNote == " [OVERRIDE: Critical risk detected by rule-based engine]"

NotCalled == [kind |-> "not_called", risk_score |-> JAbsent, decision |-> JAbsent, reasoning |-> JAbsent, confidence |-> JAbsent]

(* the provider reached with any api_key that is not None *)
ProviderCalled_any_key(key) == TRUE

(* the provider is reached only with a truthy api_key (line 192) *)
ProviderCalled(key) == TruthyStr(key)

(* _call_llm: the dict handed to _parse_llm_response.  outcome is what the  *)
(* provider call did: raised (transport_error), returned a body json.loads  *)
(* rejects (non_json), or returned a JSON object with the given fields.     *)
_call_llm(key, outcome) ==
    IF TruthyStr(key)
    THEN IF outcome.kind \in {"transport_error", "non_json"}
         THEN [risk_score |-> JNum(65), decision |-> JStr("MONITOR"),
               reasoning |-> JStr("LLM analysis failed. Defaulting to monitor."),
               confidence |-> JNum(50)]
         ELSE [risk_score |-> outcome.risk_score, decision |-> outcome.decision,
               reasoning |-> outcome.reasoning, confidence |-> outcome.confidence]
    ELSE [risk_score |-> JNum(65), decision |-> JStr("MONITOR"),
          reasoning |-> JStr("Likely a privacy-conscious user. Recommend monitoring."),
          confidence |-> JNum(75)]

NoResult == [invoked |-> FALSE, raised |-> FALSE, risk_score |-> 0, decision |-> "", reasoning |-> <<>>, confidence |-> 0]

Raised == [invoked |-> TRUE, raised |-> TRUE, risk_score |-> 0, decision |-> "", reasoning |-> <<>>, confidence |-> 0]

(* the two weights exchanged *)
FuseScoresSwapped(base_score, llm_risk_score) == (6 * base_score + 4 * llm_risk_score) \div 10

(* 0.4 * base_score + 0.6 * llm_risk_score *)
FuseScores(base_score, llm_risk_score) == (4 * base_score + 6 * llm_risk_score) \div 10

(* the safety override left out *)
_parse_llm_response_no_override(llm_response, base_score) ==
    IF FloatRaises(llm_response.risk_score) \/ FloatRaises(llm_response.confidence)
    THEN Raised
    ELSE [invoked |-> TRUE, raised |-> FALSE,
          risk_score |-> FuseScores(base_score, FloatOf(llm_response.risk_score, base_score)),
          decision |-> IF llm_response.decision.t = "absent" THEN "MONITOR" ELSE llm_response.decision.s,
          reasoning |-> IF llm_response.reasoning.t = "absent" THEN <<>> ELSE <<llm_response.reasoning.s>>,
          confidence |-> FloatOf(llm_response.confidence, 50)]

(* the override taken from base_score >= 85 on *)
_parse_llm_response_from_85(llm_response, base_score) ==
    IF FloatRaises(llm_response.risk_score) \/ FloatRaises(llm_response.confidence)
    THEN Raised
    ELSE
    LET llm_risk_score == FloatOf(llm_response.risk_score, base_score)
        decision == IF llm_response.decision.t = "absent" THEN "MONITOR" ELSE llm_response.decision.s
        reasoning == IF llm_response.reasoning.t = "absent" THEN <<>> ELSE <<llm_response.reasoning.s>>
        confidence == FloatOf(llm_response.confidence, 50)
        override == base_score >= 85 /\ decision # "ENFORCE_ACTION"
    IN [invoked |-> TRUE, raised |-> FALSE,
        risk_score |-> FuseScores(base_score, llm_risk_score),
        decision |-> IF override THEN "ENFORCE_ACTION" ELSE decision,
        reasoning |-> IF override THEN Append(reasoning, OverrideNote) ELSE reasoning,
        confidence |-> IF override THEN Min(confidence, 70) ELSE confidence]

_parse_llm_response(llm_response, base_score) ==
    IF FloatRaises(llm_response.risk_score) \/ FloatRaises(llm_response.confidence)
    THEN Raised
    ELSE
    LET llm_risk_score == FloatOf(llm_response.risk_score, base_score)
        decision == IF llm_response.decision.t = "absent" THEN "MONITOR" ELSE llm_response.decision.s
        reasoning == IF llm_response.reasoning.t = "absent" THEN <<>> ELSE <<llm_response.reasoning.s>>
        confidence == FloatOf(llm_response.confidence, 50)
        override == base_score > 85 /\ decision # "ENFORCE_ACTION"
    IN [invoked |-> TRUE, raised |-> FALSE,
        risk_score |-> FuseScores(base_score, llm_risk_score),
        decision |-> IF override THEN "ENFORCE_ACTION" ELSE decision,
        reasoning |-> IF override THEN Append(reasoning, OverrideNote) ELSE reasoning,
        confidence |-> IF override THEN Min(confidence, 70) ELSE confidence]

(* the thresholds taken strictly *)
_fallback_analysis_strict(base_risk_score_) ==
    [invoked |-> TRUE, raised |-> FALSE,
     risk_score |-> base_risk_score_,
     decision |-> IF base_risk_score_ > 75 THEN "ENFORCE_ACTION"
                  ELSE IF base_risk_score_ > 50 THEN "MONITOR"
                  ELSE "NO_ACTION",
     reasoning |-> IF base_risk_score_ > 75
                   THEN <<"High risk score detected. LLM unavailable - using conservative approach.">>
                   ELSE IF base_risk_score_ > 50
                   THEN <<"Elevated risk. LLM unavailable - defaulting to monitoring.">>
                   ELSE <<"Risk within acceptable range.">>,
     confidence |-> 60]

_fallback_analysis(base_risk_score_) ==
    [invoked |-> TRUE, raised |-> FALSE,
     risk_score |-> base_risk_score_,
     decision |-> IF base_risk_score_ >= 75 THEN "ENFORCE_ACTION"
                  ELSE IF base_risk_score_ >= 50 THEN "MONITOR"
                  ELSE "NO_ACTION",
     reasoning |-> IF base_risk_score_ >= 75
                   THEN <<"High risk score detected. LLM unavailable - using conservative approach.">>
                   ELSE IF base_risk_score_ >= 50
                   THEN <<"Elevated risk. LLM unavailable - defaulting to monitoring.">>
                   ELSE <<"Risk within acceptable range.">>,
     confidence |-> 60]

(* the canned reply parsed also when api_key is None *)
LLMAnalyze_mock_without_key(key, base_score, outcome) ==
    _parse_llm_response(_call_llm(key, outcome), base_score)

(* LLMReasoning.analyze; _llm_available is `api_key is not None` (line 31) *)
LLMAnalyze(key, base_score, outcome) ==
    IF IsNone(key)
    THEN _fallback_analysis(base_score)
    ELSE _parse_llm_response(_call_llm(key, outcome), base_score)

----------------------------------------------------------------------------
(* agent/orchestrator.py : AgentOrchestrator *)

(* a list with the item s when c holds, the empty list otherwise *)
If(c, s) == IF c THEN <<s>> ELSE <<>>

HasLending(signals) == ~IsNone(signals.lending_borrowing)

HealthFactor(signals) == Val(signals.lending_borrowing).health_factor

(* the parts of the text, without the formatted numbers *)
_generate_rule_based_reasoning(decision, risk_score, in) ==
    LET signals == in.wallet_signals
        protocol == in.protocol_health
        market == in.market_volatility
    IN  <<"Risk Score">>
        \o If(signals.age_in_days < 30, "New wallet")
        \o If(HasLending(signals) /\ HealthFactor(signals) < 150, "Health factor - liquidation risk")
        \o If(signals.suspicious_patterns.rapid_draining, "Rapid asset drainage detected")
        \o If(signals.suspicious_patterns.mixer_interaction, "Privacy mixer interaction found")
        \o If(market.volatility_index > 70, "High market volatility")
        \o If(protocol.default_rate > 5, "Elevated protocol default rate")
        \o If(signals.has_gitcoin_passport, "Gitcoin Passport verified")
        \o If(TruthyStr(signals.ens_name), "ENS")

(* the distances compared strictly *)
_calculate_rule_based_confidence_strict(risk_score) ==
    LET min_distance == Min(Abs(risk_score - 30), Min(Abs(risk_score - 60), Abs(risk_score - 80)))
    IN  IF min_distance > 10 THEN 90
        ELSE IF min_distance > 5 THEN 75
        ELSE 60

_calculate_rule_based_confidence(risk_score) ==
    LET min_distance == Min(Abs(risk_score - 30), Min(Abs(risk_score - 60), Abs(risk_score - 80)))
    IN  IF min_distance >= 10 THEN 90
        ELSE IF min_distance >= 5 THEN 75
        ELSE 60

(* the compliance freeze left out *)
_generate_recommendations_no_freeze(decision, risk_score, in) ==
    LET signals == in.wallet_signals IN
    IF decision = "NO_ACTION" THEN
        <<"Continue normal monitoring">>
        \o If(HasLending(signals) /\ HealthFactor(signals) < 200,
              "Monitor health factor - currently safe but could improve")
    ELSE IF decision = "MONITOR" THEN
        <<"Increase monitoring frequency to hourly">>
        \o If(HasLending(signals) /\ HealthFactor(signals) < 150, "Set alert for health factor < 1.2")
        \o If(signals.suspicious_patterns.unusual_activity,
              "Watch for continued unusual transaction patterns")
        \o <<"Review again in 24 hours">>
    ELSE IF decision = "REQUEST_SEVERITY_ANALYSIS" THEN
        <<"Escalate to human review or advanced LLM analysis",
          "Gather additional context on flagged behaviors">>
        \o If(signals.suspicious_patterns.mixer_interaction,
              "Investigate mixer usage - potentially legitimate privacy concern")
    ELSE IF decision = "ENFORCE_ACTION" THEN
        <<"IMMEDIATE: Notify wallet owner">>
        \o (IF HasLending(signals) /\ HealthFactor(signals) < 120
            THEN <<"IMMEDIATE: Suggest collateral top-up",
                   "IMMEDIATE: Prepare liquidation if health factor < 1.0">>
            ELSE <<>>)
        \o (IF signals.suspicious_patterns.rapid_draining
            THEN <<"URGENT: Investigate potential compromise", "Consider temporary position freeze">>
            ELSE <<>>)
    ELSE <<>>

_generate_recommendations(decision, risk_score, in) ==
    LET signals == in.wallet_signals IN
    IF decision = "NO_ACTION" THEN
        <<"Continue normal monitoring">>
        \o If(HasLending(signals) /\ HealthFactor(signals) < 200,
              "Monitor health factor - currently safe but could improve")
    ELSE IF decision = "MONITOR" THEN
        <<"Increase monitoring frequency to hourly">>
        \o If(HasLending(signals) /\ HealthFactor(signals) < 150, "Set alert for health factor < 1.2")
        \o If(signals.suspicious_patterns.unusual_activity,
              "Watch for continued unusual transaction patterns")
        \o <<"Review again in 24 hours">>
    ELSE IF decision = "REQUEST_SEVERITY_ANALYSIS" THEN
        <<"Escalate to human review or advanced LLM analysis",
          "Gather additional context on flagged behaviors">>
        \o If(signals.suspicious_patterns.mixer_interaction,
              "Investigate mixer usage - potentially legitimate privacy concern")
    ELSE IF decision = "ENFORCE_ACTION" THEN
        <<"IMMEDIATE: Notify wallet owner">>
        \o (IF HasLending(signals) /\ HealthFactor(signals) < 120
            THEN <<"IMMEDIATE: Suggest collateral top-up",
                   "IMMEDIATE: Prepare liquidation if health factor < 1.0">>
            ELSE <<>>)
        \o If(signals.suspicious_patterns.sanctioned_address_interaction,
              "IMMEDIATE: Freeze position pending compliance review")
        \o (IF signals.suspicious_patterns.rapid_draining
            THEN <<"URGENT: Investigate potential compromise", "Consider temporary position freeze">>
            ELSE <<>>)
    ELSE <<>>

(* the second age test made independent of the first *)
_extract_flags_both_age_flags(in, risk_score) ==
    LET signals == in.wallet_signals
        market == in.market_volatility
    IN  If(signals.age_in_days < 7, "VERY_NEW_WALLET")
        \o If(signals.age_in_days < 30, "NEW_WALLET")
        \o If(signals.suspicious_patterns.rapid_draining, "RAPID_DRAINAGE")
        \o If(signals.suspicious_patterns.mixer_interaction, "MIXER_INTERACTION")
        \o If(signals.suspicious_patterns.unusual_activity, "UNUSUAL_ACTIVITY")
        \o If(signals.suspicious_patterns.sanctioned_address_interaction, "SANCTIONED_ADDRESS")
        \o (IF ~HasLending(signals) THEN <<>>
            ELSE IF HealthFactor(signals) < 110 THEN <<"CRITICAL_HEALTH_FACTOR">>
            ELSE IF HealthFactor(signals) < 130 THEN <<"LOW_HEALTH_FACTOR">>
            ELSE IF HealthFactor(signals) < 150 THEN <<"DECLINING_HEALTH_FACTOR">>
            ELSE <<>>)
        \o If(market.volatility_index > 70, "HIGH_MARKET_VOLATILITY")
        \o If(market.flash_crash_detected, "FLASH_CRASH_ACTIVE")
        \o If(signals.has_gitcoin_passport, "GITCOIN_VERIFIED")
        \o If(TruthyStr(signals.ens_name), "HAS_ENS")

_extract_flags(in, risk_score) ==
    LET signals == in.wallet_signals
        market == in.market_volatility
    IN  (IF signals.age_in_days < 7 THEN <<"VERY_NEW_WALLET">>
         ELSE IF signals.age_in_days < 30 THEN <<"NEW_WALLET">> ELSE <<>>)
        \o If(signals.suspicious_patterns.rapid_draining, "RAPID_DRAINAGE")
        \o If(signals.suspicious_patterns.mixer_interaction, "MIXER_INTERACTION")
        \o If(signals.suspicious_patterns.unusual_activity, "UNUSUAL_ACTIVITY")
        \o If(signals.suspicious_patterns.sanctioned_address_interaction, "SANCTIONED_ADDRESS")
        \o (IF ~HasLending(signals) THEN <<>>
            ELSE IF HealthFactor(signals) < 110 THEN <<"CRITICAL_HEALTH_FACTOR">>
            ELSE IF HealthFactor(signals) < 130 THEN <<"LOW_HEALTH_FACTOR">>
            ELSE IF HealthFactor(signals) < 150 THEN <<"DECLINING_HEALTH_FACTOR">>
            ELSE <<>>)
        \o If(market.volatility_index > 70, "HIGH_MARKET_VOLATILITY")
        \o If(market.flash_crash_detected, "FLASH_CRASH_ACTIVE")
        \o If(signals.has_gitcoin_passport, "GITCOIN_VERIFIED")
        \o If(TruthyStr(signals.ens_name), "HAS_ENS")

NoOutput == [decision |-> "", confidence |-> 0, reasoning |-> <<>>, risk_score |-> 0, recommendations |-> <<>>, flags |-> <<>>, metadata |-> [llm_used |-> FALSE, rule_based_score |-> 0, llm_score |-> None]]

(* the mapper's result before the mapper has run *)
NoDecision == <<"", FALSE>>

(* the components analyze calls, in call order: the scorer (line 45), the   *)
(* mapper (line 47), the reasoner when flagged (line 61) and, for the       *)
(* metadata of an escalated result, the scorer again (line 101)             *)
StagesRun(invoked, raised) ==
    <<"scorer", "mapper">>
    \o (IF invoked THEN <<"reasoner">> ELSE <<>>)
    \o (IF invoked /\ ~raised THEN <<"scorer">> ELSE <<>>)

(* lines 45-52: the deterministic stage of analyze *)
RuleStage(in) ==
    map_score_to_decision(calculate_risk_score(in), in.wallet_signals, in.protocol_health, in.market_volatility)

(* line 60 *)
NeedsLLM(in) == RuleStage(in)[2] \/ RuleStage(in)[1] = "REQUEST_SEVERITY_ANALYSIS"

(* lines 68-114: the AgentOutput built from the phase-1 values and, when   *)
(* the reasoner was invoked, its result                                     *)
(* the mapper's decision and the deterministic score kept after an escalation *)
BuildOutput_keeps_rule_stage(in, res) ==
    LET rule_score == calculate_risk_score(in)
        llm_used == res.invoked
        decision == RuleStage(in)[1]
    IN  [decision |-> decision,
         confidence |-> IF llm_used THEN res.confidence ELSE _calculate_rule_based_confidence(rule_score),
         reasoning |-> IF llm_used THEN res.reasoning
                       ELSE _generate_rule_based_reasoning(decision, rule_score, in),
         risk_score |-> rule_score,
         recommendations |-> _generate_recommendations(decision, rule_score, in),
         flags |-> _extract_flags(in, rule_score),
         metadata |-> [llm_used |-> llm_used,
                       rule_based_score |-> rule_score,
                       llm_score |-> IF llm_used THEN Some(res.risk_score) ELSE None]]

(* the metadata given the final score as the rule-based score *)
BuildOutput_metadata_final_score(in, res) ==
    LET rule_score == calculate_risk_score(in)
        llm_used == res.invoked
        decision == IF llm_used THEN res.decision ELSE RuleStage(in)[1]
        risk_score == IF llm_used THEN res.risk_score ELSE rule_score
    IN  [decision |-> decision,
         confidence |-> IF llm_used THEN res.confidence ELSE _calculate_rule_based_confidence(rule_score),
         reasoning |-> IF llm_used THEN res.reasoning
                       ELSE _generate_rule_based_reasoning(decision, rule_score, in),
         risk_score |-> risk_score,
         recommendations |-> _generate_recommendations(decision, risk_score, in),
         flags |-> _extract_flags(in, risk_score),
         metadata |-> [llm_used |-> llm_used,
                       rule_based_score |-> risk_score,
                       llm_score |-> IF llm_used THEN Some(res.risk_score) ELSE None]]

(* the deterministic score recorded as llm_score *)
BuildOutput_llm_score_of_rules(in, res) ==
    LET rule_score == calculate_risk_score(in)
        llm_used == res.invoked
        decision == IF llm_used THEN res.decision ELSE RuleStage(in)[1]
        risk_score == IF llm_used THEN res.risk_score ELSE rule_score
    IN  [decision |-> decision,
         confidence |-> IF llm_used THEN res.confidence ELSE _calculate_rule_based_confidence(rule_score),
         reasoning |-> IF llm_used THEN res.reasoning
                       ELSE _generate_rule_based_reasoning(decision, rule_score, in),
         risk_score |-> risk_score,
         recommendations |-> _generate_recommendations(decision, risk_score, in),
         flags |-> _extract_flags(in, risk_score),
         metadata |-> [llm_used |-> llm_used,
                       rule_based_score |-> IF ~llm_used THEN risk_score ELSE calculate_risk_score(in),
                       llm_score |-> IF llm_used THEN Some(rule_score) ELSE None]]

BuildOutput(in, res) ==
    LET rule_score == calculate_risk_score(in)
        llm_used == res.invoked
        decision == IF llm_used THEN res.decision ELSE RuleStage(in)[1]
        risk_score == IF llm_used THEN res.risk_score ELSE rule_score
    IN  [decision |-> decision,
         confidence |-> IF llm_used THEN res.confidence ELSE _calculate_rule_based_confidence(rule_score),
         reasoning |-> IF llm_used THEN res.reasoning
                       ELSE _generate_rule_based_reasoning(decision, rule_score, in),
         risk_score |-> risk_score,
         recommendations |-> _generate_recommendations(decision, risk_score, in),
         flags |-> _extract_flags(in, risk_score),
         metadata |-> [llm_used |-> llm_used,
                       rule_based_score |-> IF ~llm_used THEN risk_score ELSE calculate_risk_score(in),
                       llm_score |-> IF llm_used THEN Some(res.risk_score) ELSE None]]

----------------------------------------------------------------------------
(* The inputs that are enumerated *)

DecisionType == {"NO_ACTION", "MONITOR", "REQUEST_SEVERITY_ANALYSIS", "ENFORCE_ACTION"}

(* api_key: None, the empty string, a key *)
ApiKeys == {None, Some(""), Some("sk-key")}

WalletAges == {3, 20, 200, 400}

Balances == {50, 5000, 200000}

Activities ==
    { [last_24h |-> 3, last_7d |-> 18, last_30d |-> 75, days_since_last_activity |-> 0],
      [last_24h |-> 150, last_7d |-> 200, last_30d |-> 450, days_since_last_activity |-> 0],
      [last_24h |-> 0, last_7d |-> 0, last_30d |-> 0, days_since_last_activity |-> 100] }

Patterns ==
    [rapid_draining : BOOLEAN, unusual_activity : BOOLEAN, new_wallet_high_value : BOOLEAN,
     mixer_interaction : BOOLEAN, sanctioned_address_interaction : BOOLEAN]

Reputations ==
    { [credit_score |-> None, on_chain_reputation |-> None, ens_name |-> None,
       has_poap |-> FALSE, has_gitcoin_passport |-> FALSE],
      [credit_score |-> Some(600), on_chain_reputation |-> Some(50), ens_name |-> Some(""),
       has_poap |-> FALSE, has_gitcoin_passport |-> FALSE],
      [credit_score |-> Some(750), on_chain_reputation |-> Some(80), ens_name |-> Some("alice.eth"),
       has_poap |-> TRUE, has_gitcoin_passport |-> TRUE] }

Lendings == {None} \cup { Some([health_factor |-> hf]) : hf \in {95, 104, 108, 115, 125, 140, 180, 280} }

Protocols ==
    [default_rate : {2, 7, 12}, liquidation_events_24h : {0, 15, 25},
     paused_contracts : {<<>>, <<"LendingPool">>}, oracle_freshness : BOOLEAN,
     oracle_deviation : {0, 6}]

Markets ==
    [volatility_index : {35, 60, 75, 92}, flash_crash_detected : BOOLEAN, black_swan_event : BOOLEAN,
     large_liquidations_in_progress : BOOLEAN, network_congestion : {"MEDIUM", "EXTREME"}]

(* the defaults of api_server.py *)
HealthyProtocol ==
    [default_rate |-> 2, liquidation_events_24h |-> 0, paused_contracts |-> <<>>,
     oracle_freshness |-> TRUE, oracle_deviation |-> 0]

CalmMarket ==
    [volatility_index |-> 35, flash_crash_detected |-> FALSE, black_swan_event |-> FALSE,
     large_liquidations_in_progress |-> FALSE, network_congestion |-> "MEDIUM"]

VolatileMarket ==
    [volatility_index |-> 75, flash_crash_detected |-> FALSE, black_swan_event |-> FALSE,
     large_liquidations_in_progress |-> TRUE, network_congestion |-> "MEDIUM"]

NormalActivity == [last_24h |-> 3, last_7d |-> 18, last_30d |-> 75, days_since_last_activity |-> 0]

MkWallet(age, balance, act, pat, rep, lend) ==
    [age_in_days |-> age,
     days_since_last_activity |-> act.days_since_last_activity,
     current_balance |-> [total_usd |-> balance],
     portfolio_value |-> [total_usd |-> balance],
     transaction_velocity |-> [last_24h |-> act.last_24h, last_7d |-> act.last_7d, last_30d |-> act.last_30d],
     suspicious_patterns |-> pat,
     lending_borrowing |-> lend,
     credit_score |-> rep.credit_score,
     on_chain_reputation |-> rep.on_chain_reputation,
     ens_name |-> rep.ens_name,
     has_poap |-> rep.has_poap,
     has_gitcoin_passport |-> rep.has_gitcoin_passport]

MkInput(wallet, protocol, market) ==
    [wallet_signals |-> wallet, protocol_health |-> protocol, market_volatility |-> market]

(* every age, pattern set, reputation and health factor tier *)
SignalWallets ==
    { MkWallet(age, 5000, NormalActivity, pat, rep, lend) :
        age \in WalletAges, pat \in Patterns, rep \in Reputations, lend \in Lendings }

FewPatterns ==
    { p \in Patterns : /\ ~p.unusual_activity /\ ~p.new_wallet_high_value
                       /\ (p.rapid_draining => p.mixer_interaction /\ ~p.sanctioned_address_interaction) }

(* every age, balance and activity *)
FundsWallets ==
    { MkWallet(age, bal, act, pat, rep, None) :
        age \in WalletAges, bal \in Balances, act \in Activities,
        pat \in FewPatterns, rep \in Reputations }

(* the wallets put under every protocol and market state *)
ContextWallets ==
    { MkWallet(age, 5000, NormalActivity, pat, rep, lend) :
        age \in {20, 400},
        pat \in { p \in FewPatterns : ~p.rapid_draining },
        rep \in { r \in Reputations : r.ens_name # Some("") },
        lend \in { l \in Lendings : l = None \/ Val(l).health_factor \in {104, 108, 115} } }

(* the established wallet of example_low_risk_wallet, with every balance and activity *)
LowRiskWallets ==
    { MkWallet(500, bal, act, [rapid_draining |-> FALSE, unusual_activity |-> FALSE,
                               new_wallet_high_value |-> FALSE, mixer_interaction |-> FALSE,
                               sanctioned_address_interaction |-> FALSE],
               rep, Some([health_factor |-> 280])) :
        bal \in Balances, act \in Activities,
        rep \in { r \in Reputations : r.ens_name = Some("alice.eth") }
                \cup { [credit_score |-> None, on_chain_reputation |-> None,
                        ens_name |-> Some("alice.eth"), has_poap |-> FALSE,
                        has_gitcoin_passport |-> TRUE] } }

(* the inputs analyze is called with, slice by slice *)
Inputs ==
    <<
      { MkInput(w, HealthyProtocol, m) : w \in SignalWallets, m \in {CalmMarket, VolatileMarket} },
      { MkInput(w, HealthyProtocol, CalmMarket) : w \in FundsWallets },
      { MkInput(w, p, CalmMarket) : w \in ContextWallets, p \in Protocols },
      { MkInput(w, HealthyProtocol, m) : w \in ContextWallets, m \in Markets },
      { MkInput(w, HealthyProtocol, CalmMarket) : w \in LowRiskWallets } >>

----------------------------------------------------------------------------
(* What the provider call can do *)

(* how far outside 0-100 the enumerated provider numbers go, in steps of 5 points *)
MaxExcess == 10

ProviderScores == {JNum(0 - 5 * MaxExcess), JNum(0), JNum(40), JNum(90), JNum(100), JNum(100 + 5 * MaxExcess)}

ProviderConfidences == {JNum(0 - 5 * MaxExcess), JNum(60), JNum(85), JNum(100 + 5 * MaxExcess)}

ProviderDecisions == {JStr(d) : d \in DecisionType \cup {"BLOCK"}}

ProviderReasonings == {JAbsent, JStr("provider text")}

Object(r, d, t, c) == [kind |-> "object", risk_score |-> r, decision |-> d, reasoning |-> t, confidence |-> c]

Failure(kind) == [kind |-> kind, risk_score |-> JAbsent, decision |-> JAbsent, reasoning |-> JAbsent, confidence |-> JAbsent]

(* failures; every risk_score (missing and wrong-typed included) with an    *)
(* otherwise nominal body; every decision, confidence and reasoning         *)
(* (missing and wrong-typed included) with a nominal risk score                  *)
ProviderOutcomes ==
    { Failure("transport_error"), Failure("non_json") }
    \cup { Object(r, JStr("MONITOR"), JStr("provider text"), JNum(85)) :
             r \in ProviderScores \cup {JAbsent, JStr("high"), JNull} }
    \cup { Object(r, d, t, c) :
             r \in {JNum(40)},
             d \in ProviderDecisions \cup {JAbsent},
             t \in ProviderReasonings,
             c \in ProviderConfidences \cup {JAbsent, JStr("high")} }

(* scores the rule engine can produce: multiples of 5 in 0..100 *)
BaseScores == { 5 * k : k \in 0..20 }

(* how many analyze calls are in progress at once *)
MaxCalls == 2

CallIds == 1..MaxCalls

(* a call that has not been received: no local variable is bound *)
IdleCall ==
    [pc |-> "idle", agent_input |-> <<>>, risk_score |-> 0, decision |-> "", needs_llm |-> FALSE,
     provider_outcome |-> NotCalled, llm_result |-> NoResult, output |-> NoOutput]

InitServer == calls = [c \in CallIds |-> IdleCall]

(* process_wallet_analysis before its first call *)
NoRequest == [input |-> <<>>, request_id |-> ""]

InitIntegration ==
    /\ phase = "idle"
    /\ wallet_request = NoRequest
    /\ local_result = NoOutput
    /\ final_result = NoOutput
    /\ phases_run = <<>>
    /\ submitted_at_entry = <<>>
    /\ submitted_results = <<>>
    /\ returned = None
    /\ processed = 0

----------------------------------------------------------------------------
(* State machine *)

Init ==
    /\ api_key \in ApiKeys
    /\ op = "init"
    /\ agent_input = <<>>
    /\ base_risk_score = 0
    /\ terms = <<>>
    /\ map_result = NoDecision
    /\ stages = <<>>
    /\ provider_outcome = NotCalled
    /\ llm_calls = 0
    /\ llm_result = NoResult
    /\ status = "idle"
    /\ output = NoOutput
    /\ InitIntegration
    /\ InitServer

(* AgentOrchestrator.analyze(agent_input) *)
Analyze ==
    /\ status = "idle"
    /\ \E slice \in DOMAIN Inputs : \E in \in Inputs[slice] :
        LET base == calculate_risk_score(in)
            invoked == NeedsLLM(in)
            called == invoked /\ ~IsNone(api_key) /\ ProviderCalled(api_key)
        IN \E oc \in (IF called THEN ProviderOutcomes ELSE {NotCalled}) :
            LET res == IF invoked THEN LLMAnalyze(api_key, base, oc) ELSE NoResult IN
            /\ op' = "analyze"
            /\ agent_input' = in
            /\ base_risk_score' = base
            /\ terms' = ScoreTerms(in)
            /\ map_result' = RuleStage(in)
            /\ stages' = StagesRun(invoked, res.raised)
            /\ provider_outcome' = oc
            /\ llm_calls' = IF called THEN 1 ELSE 0
            /\ llm_result' = res
            /\ status' = IF res.raised THEN "raised" ELSE "returned"
            /\ output' = IF res.raised THEN NoOutput ELSE BuildOutput(in, res)
            /\ UNCHANGED <<api_key, outer_vars>>

(* LLMReasoning.analyze(wallet_signals, protocol_health, market_volatility, *)
(* base_risk_score) called on its own; the signals only feed the prompt     *)
Escalate ==
    /\ status = "idle"
    /\ \E base \in BaseScores :
        LET called == ~IsNone(api_key) /\ ProviderCalled(api_key)
        IN \E oc \in (IF called THEN ProviderOutcomes ELSE {NotCalled}) :
            LET res == LLMAnalyze(api_key, base, oc) IN
            /\ op' = "escalate"
            /\ agent_input' = <<>>
            /\ base_risk_score' = base
            /\ terms' = <<>>
            /\ map_result' = NoDecision
            /\ stages' = <<"reasoner">>
            /\ provider_outcome' = oc
            /\ llm_calls' = IF called THEN 1 ELSE 0
            /\ llm_result' = res
            /\ status' = IF res.raised THEN "raised" ELSE "returned"
            /\ output' = NoOutput
            /\ UNCHANGED <<api_key, outer_vars>>

(* the caller has the result (or the exception); nothing of the call is     *)
(* kept by the orchestrator or the reasoner, only the configuration          *)
Return ==
    /\ status \in {"returned", "raised"}
    /\ op' = "init"
    /\ agent_input' = <<>>
    /\ base_risk_score' = 0
    /\ terms' = <<>>
    /\ map_result' = NoDecision
    /\ stages' = <<>>
    /\ provider_outcome' = NotCalled
    /\ llm_calls' = 0
    /\ llm_result' = NoResult
    /\ status' = "idle"
    /\ output' = NoOutput
    /\ UNCHANGED <<api_key, outer_vars>>

Next == Analyze \/ Escalate \/ Return

Spec == Init /\ [][Next]_vars

----------------------------------------------------------------------------
(* The rule engine on its own: RuleBasedEngine() takes no configuration *)

NoPatterns ==
    [rapid_draining |-> FALSE, unusual_activity |-> FALSE, new_wallet_high_value |-> FALSE,
     mixer_interaction |-> FALSE, sanctioned_address_interaction |-> FALSE]

AllPatterns ==
    [rapid_draining |-> TRUE, unusual_activity |-> TRUE, new_wallet_high_value |-> TRUE,
     mixer_interaction |-> TRUE, sanctioned_address_interaction |-> TRUE]

NoReputation == CHOOSE r \in Reputations : IsNone(r.ens_name)

FullReputation == CHOOSE r \in Reputations : r.has_gitcoin_passport

(* values on both sides of every threshold of the scorer *)
EdgeAges == {0, 3, 6, 7, 20, 29, 30, 60, 89, 90, 200, 365, 366, 400}

EdgeBalances == {50, 99, 100, 999, 1000, 5000, 50000, 50001}

EdgePortfolios == {100000, 100001}

EdgeActivities ==
    { [last_24h |-> a[1], last_7d |-> a[1], last_30d |-> a[2], days_since_last_activity |-> a[3]] :
        a \in { <<0, 0, 0>>, <<5, 0, 0>>, <<150, 450, 0>>, <<2, 30, 0>>, <<3, 30, 0>>, <<4, 30, 0>>,
                <<5, 30, 0>>, <<6, 30, 0>>, <<3, 75, 90>>, <<3, 75, 91>>, <<150, 450, 91>> } }

EdgeReputations ==
    [credit_score : {None, Some(700), Some(701)},
     on_chain_reputation : {None, Some(0), Some(70), Some(71)},
     ens_name : {None, Some(""), Some("alice.eth")},
     has_poap : BOOLEAN, has_gitcoin_passport : BOOLEAN]

EdgeLendings ==
    {None} \cup { Some([health_factor |-> hf]) :
                    hf \in {95, 104, 105, 109, 110, 119, 120, 149, 150, 199, 200, 280} }

EdgeProtocols ==
    [default_rate : {2, 5, 6, 10, 11}, liquidation_events_24h : {0, 10, 11, 20, 21},
     paused_contracts : {<<>>, <<"LendingPool">>, <<"LendingPool", "Oracle">>},
     oracle_freshness : BOOLEAN, oracle_deviation : {0, 5, 6}]

EdgeMarkets ==
    [volatility_index : {35, 50, 51, 70, 71, 80, 81, 92}, flash_crash_detected : BOOLEAN,
     black_swan_event : BOOLEAN, large_liquidations_in_progress : BOOLEAN,
     network_congestion : {"LOW", "MEDIUM", "HIGH", "EXTREME"}]

WithPortfolio(w, usd) == [w EXCEPT !.portfolio_value = [total_usd |-> usd]]

(* one group of signals at a time over all its edge values, the others at   *)
(* values that leave the sum inside, below or above 0..100                  *)
ScoreInputs ==
    <<
      { MkInput(WithPortfolio(MkWallet(age, bal, act, pat, rep, None), port), HealthyProtocol, CalmMarket) :
          age \in EdgeAges, bal \in EdgeBalances, port \in EdgePortfolios, act \in EdgeActivities,
          pat \in {NoPatterns, AllPatterns}, rep \in {NoReputation, FullReputation} },
      { MkInput(MkWallet(200, 5000, NormalActivity, pat, rep, None), HealthyProtocol, CalmMarket) :
          pat \in Patterns, rep \in EdgeReputations },
      { MkInput(MkWallet(200, 5000, NormalActivity, NoPatterns, NoReputation, lend), p, CalmMarket) :
          lend \in EdgeLendings, p \in EdgeProtocols },
      { MkInput(MkWallet(200, 5000, NormalActivity, NoPatterns, NoReputation, lend), HealthyProtocol, m) :
          lend \in {None, Some([health_factor |-> 104])}, m \in EdgeMarkets } >>

(* every combination of the signals the mapper reads *)
MapReputations ==
    Reputations
    \cup { [NoReputation EXCEPT !.on_chain_reputation = Some(80)],
           [NoReputation EXCEPT !.has_gitcoin_passport = TRUE] }

MapInputs ==
    { MkInput(MkWallet(age, 5000, NormalActivity, pat, rep, lend), p, m) :
        age \in {200, 400}, pat \in Patterns, rep \in MapReputations,
        lend \in {None} \cup { Some([health_factor |-> hf]) : hf \in {104, 108} },
        p \in {HealthyProtocol, [HealthyProtocol EXCEPT !.paused_contracts = <<"LendingPool">>]},
        m \in {CalmMarket, [CalmMarket EXCEPT !.volatility_index = 92]} }

InitEngine == Init /\ IsNone(api_key)

(* RuleBasedEngine.calculate_risk_score(agent_input) *)
Score ==
    /\ status = "idle"
    /\ \E slice \in DOMAIN ScoreInputs : \E in \in ScoreInputs[slice] :
        /\ op' = "score"
        /\ agent_input' = in
        /\ base_risk_score' = calculate_risk_score(in)
        /\ terms' = ScoreTerms(in)
        /\ stages' = <<"scorer">>
        /\ status' = "returned"
        /\ UNCHANGED <<outer_vars, api_key, map_result, provider_outcome, llm_calls, llm_result, output>>

(* RuleBasedEngine.map_score_to_decision(risk_score, signals, protocol,     *)
(* market) with any score, not only the one the scorer gives the signals    *)
MapDecision ==
    /\ status = "idle"
    /\ \E in \in MapInputs, risk_score \in BaseScores :
        /\ op' = "map"
        /\ agent_input' = in
        /\ base_risk_score' = risk_score
        /\ terms' = <<>>
        /\ map_result' = map_score_to_decision(risk_score, in.wallet_signals, in.protocol_health,
                                               in.market_volatility)
        /\ stages' = <<"mapper">>
        /\ status' = "returned"
        /\ UNCHANGED <<outer_vars, api_key, provider_outcome, llm_calls, llm_result, output>>

NextEngine == Score \/ MapDecision \/ Return

SpecEngine == InitEngine /\ [][NextEngine]_vars

----------------------------------------------------------------------------
(* The integration layer: integration/orchestrator.py.                      *)
(* Risk scores of this layer are kept in tenths of a point (71.5 is 715),   *)
(* since analyze_with_iexec multiplies the score by 1.1.                    *)

(* AgentOrchestrator.analyze as a function of the configured key, the input *)
(* and what the provider call does (orchestrator.py lines 33-114)           *)
AnalyzeResult(key, in, oc) ==
    LET res == IF NeedsLLM(in) THEN LLMAnalyze(key, calculate_risk_score(in), oc) ELSE NoResult
    IN  BuildOutput(in, res)

(* self.local_agent = AgentOrchestrator(): no key, so no provider call *)
LocalAgentAnalyze(in) ==
    LET local == AnalyzeResult(None, in, NotCalled)
    IN  [local EXCEPT !.risk_score = 10 * @]

(* MockIExecIntegration.analyze_with_iexec: a fresh AgentOrchestrator()     *)
(* analyses the input again and the result is "enhanced"                     *)
analyze_with_iexec(in) ==
    LET rerun == AnalyzeResult(None, in, NotCalled)
    IN  [decision |-> rerun.decision,
         confidence |-> Min(rerun.confidence + 10, 100),
         reasoning |-> rerun.reasoning \o <<"[Enhanced by iExec TEE analysis]">>,
         risk_score |-> Min(11 * rerun.risk_score, 1000),
         recommendations |-> rerun.recommendations \o <<"iExec verification completed">>,
         flags |-> rerun.flags \o <<"IEXEC_VERIFIED">>,
         metadata |-> rerun.metadata]

(* line 159, without the score threshold *)
needs_iexec_only_on_request(local) == local.decision = "REQUEST_SEVERITY_ANALYSIS"

(* lines 159-162 *)
needs_iexec(local) ==
    local.decision = "REQUEST_SEVERITY_ANALYSIS" \/ local.risk_score >= 600

(* line 181 *)
significant_risk(final) == final.risk_score >= 250

(* AgentOutput.to_dict: the roundings keep two decimals, and a falsy        *)
(* llm_score (None or 0) becomes None                                       *)
to_dict(out) ==
    [out EXCEPT !.metadata.llm_score = IF ~IsNone(@) /\ Val(@) # 0 THEN @ ELSE None]

(* MockContractBridge.submit_result, lines 78-87: the transaction hash is   *)
(* the SHA-256 of the serialised result, kept symbolic                      *)
MockReceipt(result_dict) ==
    [transactionHash |-> <<"sha256", result_dict>>, blockNumber |-> 12345678,
     status |-> 1, gasUsed |-> 250000, logs |-> <<>>]

(* MockContractBridge.submit_result, lines 90-94 *)
submit_result(results, result_dict, task_id) ==
    Append(results, [result |-> result_dict, task_id |-> task_id, receipt |-> MockReceipt(result_dict)])

(* the contract address the orchestrator is constructed with by default *)
ContractAddress == "0x0000000000000000000000000000000000000000"

(* metadata.request_id of the requests *)
RequestIds == {"req-1", "req-2"}

(* how many calls of process_wallet_analysis are followed *)
MaxProcessed == 2

(* wallets whose local scores lie on both sides of 25 and of 60, 25, 60 and *)
(* 100 included                                                             *)
E2EInputs ==
    { MkInput(MkWallet(age, 5000, NormalActivity, pat, rep, lend), HealthyProtocol, CalmMarket) :
        age \in {20, 200},
        pat \in {NoPatterns, [NoPatterns EXCEPT !.rapid_draining = TRUE],
                  [NoPatterns EXCEPT !.rapid_draining = TRUE, !.mixer_interaction = TRUE]},
        rep \in {NoReputation, FullReputation},
        lend \in {None, Some([health_factor |-> 104])} }

----------------------------------------------------------------------------
(* EndToEndOrchestrator.process_wallet_analysis, phase by phase *)

InitE2E == Init /\ IsNone(api_key)

(* lines 143-156: the input is built and the local agent analyses it *)
LocalAnalysis ==
    /\ phase = "idle"
    /\ processed < MaxProcessed
    /\ \E in \in E2EInputs, rid \in RequestIds :
        /\ wallet_request' = [input |-> in, request_id |-> rid]
        /\ local_result' = LocalAgentAnalyze(in)
    /\ phase' = "analysed"
    /\ phases_run' = <<"local">>
    /\ submitted_at_entry' = submitted_results
    /\ processed' = processed + 1
    /\ UNCHANGED <<final_result, submitted_results, returned, agent_vars, server_vars>>

(* lines 164-175 *)
IExecAnalysis ==
    /\ phase = "analysed"
    /\ needs_iexec(local_result)
    /\ final_result' = analyze_with_iexec(wallet_request.input)
    /\ phases_run' = Append(phases_run, "iexec")
    /\ phase' = "final"
    /\ UNCHANGED <<wallet_request, local_result, submitted_at_entry, submitted_results, returned, processed, agent_vars, server_vars>>

(* lines 176-178 *)
LocalSufficient ==
    /\ phase = "analysed"
    /\ ~needs_iexec(local_result)
    /\ final_result' = local_result
    /\ phase' = "final"
    /\ UNCHANGED <<wallet_request, local_result, phases_run, submitted_at_entry, submitted_results, returned, processed, agent_vars, server_vars>>

(* lines 181-194 *)
SubmitToContract ==
    /\ phase = "final"
    /\ significant_risk(final_result)
    /\ submitted_results' = submit_result(submitted_results, to_dict(final_result), wallet_request.request_id)
    /\ returned' = Some([analysis |-> to_dict(final_result),
                         transaction |-> Some(MockReceipt(to_dict(final_result))),
                         contract_address |-> Some(ContractAddress)])
    /\ phases_run' = Append(phases_run, "submit")
    /\ phase' = "done"
    /\ UNCHANGED <<wallet_request, local_result, final_result, submitted_at_entry, processed, agent_vars, server_vars>>

(* lines 195-201 *)
NoSubmission ==
    /\ phase = "final"
    /\ ~significant_risk(final_result)
    /\ returned' = Some([analysis |-> to_dict(final_result), transaction |-> None, contract_address |-> None])
    /\ phase' = "done"
    /\ UNCHANGED <<wallet_request, local_result, final_result, phases_run, submitted_at_entry, submitted_results, processed, agent_vars, server_vars>>

(* the caller has the returned dictionary; the bridge keeps its list *)
Completed ==
    /\ phase = "done"
    /\ phase' = "idle"
    /\ wallet_request' = NoRequest
    /\ local_result' = NoOutput
    /\ final_result' = NoOutput
    /\ phases_run' = <<>>
    /\ submitted_at_entry' = <<>>
    /\ returned' = None
    /\ UNCHANGED <<submitted_results, processed, agent_vars, server_vars>>

NextE2E == LocalAnalysis \/ IExecAnalysis \/ LocalSufficient \/ SubmitToContract \/ NoSubmission \/ Completed

SpecE2E == InitE2E /\ [][NextE2E]_vars

----------------------------------------------------------------------------
(* Concurrent requests: api_server.py builds one AgentOrchestrator at       *)
(* import (lines 32-33) and every request calls its analyze (line 112).     *)
(* The orchestrator, the rule engine and the reasoner assign attributes in  *)
(* __init__ only; analyze works on local variables.  The calls are followed *)
(* statement by statement and may interleave between any two statements.    *)

(* the variables kept on the shared instance: a statement reads those of   *)
(* the first call whenever that call is in progress                         *)
Local_of_instance(c) == IF calls[1].pc = "idle" THEN calls[c] ELSE calls[1]

(* the local variables a statement of call c reads: those of its own frame *)
Local(c) == calls[c]

(* orchestrator.py lines 54-114 over the locals of lines 45-52 *)
AssembleOutput(in, rule_score, rule_decision, res) ==
    LET llm_used == res.invoked
        decision == IF llm_used THEN res.decision ELSE rule_decision
        risk_score == IF llm_used THEN res.risk_score ELSE rule_score
    IN  [decision |-> decision,
         confidence |-> IF llm_used THEN res.confidence ELSE _calculate_rule_based_confidence(risk_score),
         reasoning |-> IF llm_used THEN res.reasoning
                       ELSE _generate_rule_based_reasoning(decision, risk_score, in),
         risk_score |-> risk_score,
         recommendations |-> _generate_recommendations(decision, risk_score, in),
         flags |-> _extract_flags(in, risk_score),
         metadata |-> [llm_used |-> llm_used,
                       rule_based_score |-> IF ~llm_used THEN risk_score ELSE calculate_risk_score(in),
                       llm_score |-> IF llm_used THEN Some(res.risk_score) ELSE None]]

(* a young wallet on every path through analyze: no action, monitoring,     *)
(* enforcement, and the ambiguous band at 60 and at 75                      *)
ServerInputs ==
    { MkInput(MkWallet(20, 5000, NormalActivity, pat, FullReputation, lend), HealthyProtocol, m) :
        pat \in {NoPatterns, [NoPatterns EXCEPT !.rapid_draining = TRUE, !.mixer_interaction = TRUE]},
        lend \in {Some([health_factor |-> 104]), Some([health_factor |-> 140])},
        m \in {CalmMarket, VolatileMarket} }

(* a failed call, two well-formed replies and a reply analyze raises on *)
ServerOutcomes ==
    { Failure("transport_error"),
      Object(JNum(90), JStr("ENFORCE_ACTION"), JStr("provider text"), JNum(85)),
      Object(JNum(0), JStr("NO_ACTION"), JAbsent, JNum(60)),
      Object(JStr("high"), JStr("MONITOR"), JStr("provider text"), JNum(85)) }

(* os.getenv("OPENAI_API_KEY"): unset or set *)
InitServerSpec == Init /\ api_key \in {None, Some("sk-key")}

(* api_server.py lines 103-112: the request is parsed and analyze entered *)
Receive ==
    \E c \in CallIds, in \in ServerInputs :
        /\ calls[c].pc = "idle"
        /\ calls' = [calls EXCEPT ![c] = [@ EXCEPT !.pc = "received", !.agent_input = in]]
        /\ UNCHANGED <<agent_vars, integration_vars>>

(* orchestrator.py line 45 *)
ScoreStep ==
    \E c \in CallIds :
        /\ calls[c].pc = "received"
        /\ calls' = [calls EXCEPT ![c] = [@ EXCEPT !.pc = "scored",
                                                  !.risk_score = calculate_risk_score(Local(c).agent_input)]]
        /\ UNCHANGED <<agent_vars, integration_vars>>

(* orchestrator.py lines 47-52 *)
MapStep ==
    \E c \in CallIds :
        LET in == Local(c).agent_input
            mapped == map_score_to_decision(Local(c).risk_score, in.wallet_signals, in.protocol_health, in.market_volatility)
        IN  /\ calls[c].pc = "scored"
            /\ calls' = [calls EXCEPT ![c] = [@ EXCEPT !.pc = "mapped", !.decision = mapped[1], !.needs_llm = mapped[2]]]
            /\ UNCHANGED <<agent_vars, integration_vars>>

(* orchestrator.py lines 60-66: the reasoner, and through it the provider *)
ReasonStep ==
    \E c \in CallIds :
        /\ calls[c].pc = "mapped"
        /\ Local(c).needs_llm \/ Local(c).decision = "REQUEST_SEVERITY_ANALYSIS"
        /\ \E oc \in (IF ~IsNone(api_key) /\ ProviderCalled(api_key) THEN ServerOutcomes ELSE {NotCalled}) :
            LET res == LLMAnalyze(api_key, Local(c).risk_score, oc)
            IN  calls' = [calls EXCEPT ![c] = [@ EXCEPT !.pc = IF res.raised THEN "raised" ELSE "reasoned",
                                                          !.provider_outcome = oc, !.llm_result = res]]
        /\ UNCHANGED <<agent_vars, integration_vars>>

(* orchestrator.py lines 68-114 *)
BuildStep ==
    \E c \in CallIds :
        /\ \/ calls[c].pc = "reasoned"
           \/ calls[c].pc = "mapped" /\ ~(Local(c).needs_llm \/ Local(c).decision = "REQUEST_SEVERITY_ANALYSIS")
        /\ calls' = [calls EXCEPT ![c] = [@ EXCEPT !.pc = "returned",
                        !.output = AssembleOutput(Local(c).agent_input, Local(c).risk_score,
                                                  Local(c).decision, Local(c).llm_result)]]
        /\ UNCHANGED <<agent_vars, integration_vars>>

(* api_server.py lines 114-119: the response, or the 500 of an exception *)
Respond ==
    \E c \in CallIds :
        /\ calls[c].pc \in {"returned", "raised"}
        /\ calls' = [calls EXCEPT ![c] = IdleCall]
        /\ UNCHANGED <<agent_vars, integration_vars>>

NextServer == Receive \/ ScoreStep \/ MapStep \/ ReasonStep \/ BuildStep \/ Respond

SpecServer == InitServerSpec /\ [][NextServer]_vars

TypeOK ==
    /\ api_key \in ApiKeys
    /\ op \in {"init", "analyze", "escalate", "score", "map"}
    /\ status \in {"idle", "returned", "raised"}
    /\ llm_calls \in {0, 1}

----------------------------------------------------------------------------
(* Properties *)

Analyzed == op = "analyze" /\ status = "returned"

Sanctioned == agent_input.wallet_signals.suspicious_patterns.sanctioned_address_interaction

Blocked ==
    _check_critical_blockers(agent_input.wallet_signals, agent_input.protocol_health, agent_input.market_volatility)

(* C1: the risk_score of every AgentOutput returned by analyze lies in      *)
(* 0..100, whatever the provider answered.                                  *)
C1_RiskScoreInRange == Analyzed => (output.risk_score >= 0 /\ output.risk_score <= 100)

(* C2: the confidence of every AgentOutput returned by analyze lies in      *)
(* 0..100, whatever the provider answered.                                  *)
C2_ConfidenceInRange == Analyzed => (output.confidence >= 0 /\ output.confidence <= 100)

(* C3: an input with the sanctioned-address flag set always gets the        *)
(* decision ENFORCE_ACTION, with or without a provider.                     *)
C3_SanctionedEnforces ==
    (op = "analyze" /\ Sanctioned) => (status = "returned" /\ output.decision = "ENFORCE_ACTION")

C3_Witness ==
    /\ Analyzed
    /\ Sanctioned
    /\ base_risk_score < 30
    /\ api_key = Some("sk-key")
    /\ output.decision = "ENFORCE_ACTION"

(* C4: a deterministic score above 85 ends in ENFORCE_ACTION: analyze       *)
(* returns it, and the reasoner given such a base score never returns       *)
(* another decision.                                                        *)
C4_CriticalScoreEnforces ==
    /\ (op = "analyze" /\ base_risk_score > 85) =>
           (status = "returned" /\ output.decision = "ENFORCE_ACTION")
    /\ (op = "escalate" /\ base_risk_score > 85 /\ status = "returned") =>
           llm_result.decision = "ENFORCE_ACTION"

C4_Witness ==
    /\ Analyzed
    /\ base_risk_score > 85
    /\ ~Blocked
    /\ output.decision = "ENFORCE_ACTION"

(* C5: without a provider (api_key is None) the reasoner returns            *)
(* ENFORCE_ACTION for a base score of 75 or more, MONITOR for 50..74,       *)
(* NO_ACTION below 50, always with confidence 60 and the base score         *)
(* unchanged.                                                               *)
C5_NoProviderFallback ==
    (op = "escalate" /\ IsNone(api_key)) =>
        /\ status = "returned"
        /\ llm_calls = 0
        /\ (base_risk_score >= 75 => llm_result.decision = "ENFORCE_ACTION")
        /\ (base_risk_score >= 50 /\ base_risk_score < 75 => llm_result.decision = "MONITOR")
        /\ (base_risk_score < 50 => llm_result.decision = "NO_ACTION")
        /\ llm_result.confidence = 60
        /\ llm_result.risk_score = base_risk_score

C5_Witness ==
    /\ op = "escalate"
    /\ IsNone(api_key)
    /\ base_risk_score = 75
    /\ llm_result.decision = "ENFORCE_ACTION"

ProviderFailed == llm_calls = 1 /\ provider_outcome.kind \in {"transport_error", "non_json"}

(* C6: when the provider call fails the reasoner returns the base score     *)
(* unchanged, MONITOR, confidence 50 and a reasoning that states the        *)
(* failure, without raising.                                                *)
C6_FailureFallbackRecord ==
    ProviderFailed =>
        /\ status = "returned"
        /\ llm_result.risk_score = base_risk_score
        /\ llm_result.decision = "MONITOR"
        /\ llm_result.confidence = 50
        /\ llm_result.reasoning = <<"LLM analysis failed. Defaulting to monitor.">>

(* C7: the decision of every AgentOutput is one of the four decision        *)
(* values, a provider answer with another token being dropped.              *)
C7_DecisionIsDecisionType == Analyzed => output.decision \in DecisionType

(* C8: analyze returns an AgentOutput for every provider outcome and never  *)
(* lets an exception reach its caller.                                      *)
C8_AnalyzeNeverRaises == op = "analyze" => status = "returned"

GivenDecision == IF provider_outcome.decision.t = "absent" THEN "MONITOR" ELSE provider_outcome.decision.s

GivenConfidence == IF provider_outcome.confidence.t = "absent" THEN 50 ELSE provider_outcome.confidence.n

GivenReasoning == IF provider_outcome.reasoning.t = "absent" THEN <<>> ELSE <<provider_outcome.reasoning.s>>

Parsed == llm_calls = 1 /\ provider_outcome.kind = "object" /\ status = "returned"

(* C9: for a base score above 85 and a provider decision other than         *)
(* ENFORCE_ACTION the parsed result is ENFORCE_ACTION with the confidence   *)
(* capped at 70 and the override note appended to the reasoning; in every   *)
(* other case decision, confidence and reasoning are the provider's (the    *)
(* defaults MONITOR, 50 and the empty text standing for a missing field).   *)
C9_SafetyOverride ==
    Parsed =>
        IF base_risk_score > 85 /\ GivenDecision # "ENFORCE_ACTION"
        THEN /\ llm_result.decision = "ENFORCE_ACTION"
             /\ (GivenConfidence <= 70 => llm_result.confidence = GivenConfidence)
             /\ (GivenConfidence > 70 => llm_result.confidence = 70)
             /\ llm_result.reasoning = GivenReasoning \o <<OverrideNote>>
        ELSE /\ llm_result.decision = GivenDecision
             /\ llm_result.confidence = GivenConfidence
             /\ llm_result.reasoning = GivenReasoning

C9_Witness ==
    /\ Parsed
    /\ base_risk_score = 90
    /\ GivenDecision = "NO_ACTION"
    /\ GivenConfidence = 85
    /\ llm_result.decision = "ENFORCE_ACTION"
    /\ llm_result.confidence = 70
    /\ Len(llm_result.reasoning) = 2

(* the score the escalation arrived at: the provider's risk_score, the base *)
(* score when the body has none, 65 in the failure and placeholder records, *)
(* and the base score itself when no provider is configured                 *)
EscalatedScore ==
    IF IsNone(api_key) THEN base_risk_score
    ELSE IF llm_calls = 0 \/ provider_outcome.kind # "object" THEN 65
    ELSE IF provider_outcome.risk_score.t = "absent" THEN base_risk_score
    ELSE provider_outcome.risk_score.n

----------------------------------------------------------------------------
(* The rule engine *)

Mapped == op = "map" /\ status = "returned"

Scored == op = "score" /\ status = "returned"

Paused == agent_input.protocol_health.paused_contracts # <<>>

(* a lending position with a health factor below hf during volatility above 70 *)
LiquidationRisk(hf) ==
    /\ ~IsNone(agent_input.wallet_signals.lending_borrowing)
    /\ Val(agent_input.wallet_signals.lending_borrowing).health_factor < hf
    /\ agent_input.market_volatility.volatility_index > 70

CriticalOverride == Sanctioned \/ LiquidationRisk(105) \/ Paused

(* C11: map_score_to_decision returns (ENFORCE_ACTION, False) for every     *)
(* risk_score, those below 30 included, whenever the sanctioned flag is     *)
(* set, or a lending position has a health factor below 1.05 with           *)
(* volatility above 70, or paused_contracts is non-empty.                   *)
C11_OverrideBeforeThresholds ==
    (Mapped /\ CriticalOverride) => map_result = <<"ENFORCE_ACTION", FALSE>>

C11_Witness ==
    /\ Mapped
    /\ Paused /\ ~Sanctioned /\ ~LiquidationRisk(105)
    /\ base_risk_score < 30
    /\ map_result = <<"ENFORCE_ACTION", FALSE>>

(* a lending position with health factor 1.08 under volatility index 92 *)
LiquidationScenario ==
    /\ ~IsNone(agent_input.wallet_signals.lending_borrowing)
    /\ Val(agent_input.wallet_signals.lending_borrowing).health_factor = 108
    /\ agent_input.market_volatility.volatility_index = 92

(* C12 as stated: health factor 1.08 with volatility index 92 is enforced   *)
(* without escalation whatever the other fields are.                        *)
C12_Scenario108Enforced ==
    (op = "analyze" /\ LiquidationScenario) =>
        /\ status = "returned"
        /\ output.decision = "ENFORCE_ACTION"
        /\ ~output.metadata.llm_used

(* C12: a lending position with a health factor below 1.05 under a          *)
(* volatility index above 70 is enforced without escalation whatever the    *)
(* other fields are, also when the additive score is below 80.              *)
C12_LiquidationOverride ==
    (op = "analyze" /\ LiquidationRisk(105)) =>
        /\ status = "returned"
        /\ map_result = <<"ENFORCE_ACTION", FALSE>>
        /\ output.decision = "ENFORCE_ACTION"
        /\ ~output.metadata.llm_used

C12_Witness ==
    /\ Analyzed
    /\ LiquidationRisk(105) /\ ~Sanctioned /\ ~Paused
    /\ agent_input.market_volatility.volatility_index = 92
    /\ base_risk_score < 30
    /\ output.decision = "ENFORCE_ACTION"
    /\ ~output.metadata.llm_used

(* a positive signal: ENS set, verification badge, age above 365 days or    *)
(* on-chain reputation above 70                                             *)
PositiveSignal ==
    LET w == agent_input.wallet_signals IN
    \/ w.ens_name # None
    \/ w.has_gitcoin_passport
    \/ w.age_in_days > 365
    \/ (w.on_chain_reputation # None /\ Val(w.on_chain_reputation) > 70)

(* a negative signal: one of the four non-sanction patterns *)
NegativeSignal ==
    \E f \in {"mixer_interaction", "rapid_draining", "unusual_activity", "new_wallet_high_value"} :
        agent_input.wallet_signals.suspicious_patterns[f]

(* C13: with no critical override and a score in 60..79 the mapper returns  *)
(* (REQUEST_SEVERITY_ANALYSIS, True) exactly when a positive and a negative *)
(* signal are both present and (ENFORCE_ACTION, False) otherwise; mixer     *)
(* interaction with an ENS name and an age above 365 is such a case.        *)
C13_AmbiguousBand ==
    (Mapped /\ ~CriticalOverride /\ base_risk_score >= 60 /\ base_risk_score < 80) =>
        /\ (PositiveSignal /\ NegativeSignal) => map_result = <<"REQUEST_SEVERITY_ANALYSIS", TRUE>>
        /\ ~(PositiveSignal /\ NegativeSignal) => map_result = <<"ENFORCE_ACTION", FALSE>>
        /\ ( /\ agent_input.wallet_signals.suspicious_patterns.mixer_interaction
             /\ agent_input.wallet_signals.ens_name # None
             /\ agent_input.wallet_signals.age_in_days > 365 )
           => map_result = <<"REQUEST_SEVERITY_ANALYSIS", TRUE>>

C13_Witness ==
    /\ Mapped /\ ~CriticalOverride
    /\ base_risk_score = 65
    /\ agent_input.wallet_signals.suspicious_patterns.mixer_interaction
    /\ ~agent_input.wallet_signals.suspicious_patterns.rapid_draining
    /\ agent_input.wallet_signals.ens_name = Some("alice.eth")
    /\ agent_input.wallet_signals.age_in_days > 365
    /\ map_result = <<"REQUEST_SEVERITY_ANALYSIS", TRUE>>

(* C14: with no critical override the mapper returns (ENFORCE_ACTION,       *)
(* False) for a score of 80 or more, (MONITOR, False) for 30..59 and        *)
(* (NO_ACTION, False) below 30, and for every score and signal combination  *)
(* it returns one of the four decisions.                                    *)
C14_ScoreLadder ==
    Mapped =>
        /\ map_result[1] \in DecisionType
        /\ ~CriticalOverride =>
            /\ base_risk_score >= 80 => map_result = <<"ENFORCE_ACTION", FALSE>>
            /\ (base_risk_score >= 30 /\ base_risk_score < 60) => map_result = <<"MONITOR", FALSE>>
            /\ base_risk_score < 30 => map_result = <<"NO_ACTION", FALSE>>

C14_Witness ==
    /\ Mapped /\ ~CriticalOverride
    /\ base_risk_score = 30
    /\ PositiveSignal /\ NegativeSignal
    /\ map_result = <<"MONITOR", FALSE>>

----------------------------------------------------------------------------
(* The rule table of the scorer, one row per factor, read off the inputs    *)
(* of the call                                                              *)

Wallet == agent_input.wallet_signals

(* the points of the first row of rows whose condition holds, else 0 *)
RECURSIVE FirstMatch(_)
FirstMatch(rows) ==
    IF rows = <<>> THEN 0
    ELSE IF rows[1][1] THEN rows[1][2]
    ELSE FirstMatch(Tail(rows))

Points(cond, p) == IF cond THEN p ELSE 0

TableWalletAge ==
    FirstMatch(<< <<Wallet.age_in_days < 7, 20>>, <<Wallet.age_in_days < 30, 10>>,
                  <<Wallet.age_in_days < 90, 5>>, <<Wallet.age_in_days > 365, 0 - 10>> >>)

TableBalance ==
      FirstMatch(<< <<Wallet.current_balance.total_usd < 100, 15>>,
                    <<Wallet.current_balance.total_usd < 1000, 5>> >>)
    + Points(Wallet.age_in_days < 30 /\ Wallet.current_balance.total_usd > 50000, 10)
    + Points(Wallet.age_in_days > 365 /\ Wallet.portfolio_value.total_usd > 100000, 0 - 5)

(* ratio = last_24h / (last_30d / 30) compared with k; the ratio is the     *)
(* neutral 1.0 when the 30-day count is zero and, if newWalletNeutral, also *)
(* when age_in_days is zero                                                 *)
TableRatioAbove(k, newWalletNeutral) ==
    LET v == Wallet.transaction_velocity IN
    IF v.last_30d = 0 \/ (newWalletNeutral /\ Wallet.age_in_days = 0)
    THEN FALSE
    ELSE v.last_24h * 30 > k * v.last_30d

TableVelocity(newWalletNeutral) ==
      FirstMatch(<< <<TableRatioAbove(5, newWalletNeutral), 25>>,
                    <<TableRatioAbove(3, newWalletNeutral), 15>>,
                    <<TableRatioAbove(2, newWalletNeutral), 10>> >>)
    + Points(Wallet.days_since_last_activity > 90, 10)

TablePatterns ==
      Points(Wallet.suspicious_patterns.rapid_draining, 30)
    + Points(Wallet.suspicious_patterns.mixer_interaction, 25)
    + Points(Wallet.suspicious_patterns.new_wallet_high_value, 20)
    + Points(Wallet.suspicious_patterns.unusual_activity, 15)
    + Points(Wallet.suspicious_patterns.sanctioned_address_interaction, 50)

(* an absent ENS name, reputation or credit score contributes nothing *)
TableReputation ==
    0 - Points(Wallet.ens_name \notin {None, Some("")}, 10)
      - Points(Wallet.has_gitcoin_passport, 15)
      - Points(Wallet.has_poap, 5)
      - Points(Wallet.on_chain_reputation # None /\ Val(Wallet.on_chain_reputation) > 70, 10)
      - Points(Wallet.credit_score # None /\ Val(Wallet.credit_score) > 700, 15)

(* health factors in hundredths; no lending position contributes nothing *)
TableDefi ==
    IF Wallet.lending_borrowing = None THEN 0
    ELSE LET hf == Val(Wallet.lending_borrowing).health_factor IN
         FirstMatch(<< <<hf < 105, 50>>, <<hf < 110, 40>>, <<hf < 120, 30>>,
                       <<hf < 150, 20>>, <<hf < 200, 10>> >>)

TableProtocol ==
    LET p == agent_input.protocol_health IN
      FirstMatch(<< <<p.default_rate > 10, 25>>, <<p.default_rate > 5, 15>> >>)
    + FirstMatch(<< <<p.liquidation_events_24h > 20, 20>>, <<p.liquidation_events_24h > 10, 10>> >>)
    + Points(Len(p.paused_contracts) > 0, 30)
    + Points(~p.oracle_freshness, 25)
    + Points(p.oracle_deviation > 5, 15)

TableMarket ==
    LET m == agent_input.market_volatility IN
      FirstMatch(<< <<m.volatility_index > 80, 30>>, <<m.volatility_index > 70, 25>>,
                    <<m.volatility_index > 50, 15>> >>)
    + Points(m.flash_crash_detected, 30)
    + Points(m.black_swan_event, 40)
    + Points(m.large_liquidations_in_progress, 20)
    + Points(m.network_congestion = "EXTREME", 10)

TableSum(newWalletNeutral) ==
    TableWalletAge + TableBalance + TableVelocity(newWalletNeutral) + TablePatterns
    + TableReputation + TableDefi + TableProtocol + TableMarket

Clamp(x, lo, hi) == IF x < lo THEN lo ELSE IF x > hi THEN hi ELSE x

Sum8(t) == t[1] + t[2] + t[3] + t[4] + t[5] + t[6] + t[7] + t[8]

(* C16 as stated: the score is the sum of the eight rows of the rule        *)
(* table, clamped to 0..100, the velocity ratio being last_24h /            *)
(* (last_30d / 30) whenever the 30-day count is non-zero.                   *)
C16_ScoreIsTableSum == Scored => base_risk_score = Clamp(TableSum(FALSE), 0, 100)

(* C16: the score is the sum of the eight rows of the rule table, clamped   *)
(* to 0..100, with the velocity ratio neutral for a wallet of age 0; absent *)
(* optional fields contribute zero.                                         *)
C16_ScoreIsGuardedTableSum ==
    Scored =>
        /\ base_risk_score = Clamp(TableSum(TRUE), 0, 100)
        /\ Wallet.lending_borrowing = None => terms[6] = 0
        /\ ( /\ Wallet.credit_score = None /\ Wallet.on_chain_reputation = None
             /\ Wallet.ens_name = None /\ ~Wallet.has_poap /\ ~Wallet.has_gitcoin_passport )
           => terms[5] = 0

C16_Witness ==
    /\ Scored
    /\ TableSum(TRUE) > 100
    /\ base_risk_score = 100
    /\ Wallet.lending_borrowing = None /\ Wallet.credit_score = None

Burst ==
    /\ Wallet.transaction_velocity.last_24h = 150
    /\ Wallet.transaction_velocity.last_30d = 450

(* C18 as stated: the velocity term is the tier of last_24h / (last_30d /   *)
(* 30) whenever the 30-day count is non-zero and of the neutral ratio 1.0   *)
(* when it is zero, plus 10 for more than 90 idle days; 150 against 450     *)
(* earns the +25 tier.                                                      *)
C18_VelocityTerm ==
    Scored =>
        /\ terms[3] = TableVelocity(FALSE)
        /\ Burst => terms[3] >= 25

(* C18: the velocity term is the tier of last_24h / (last_30d / 30) when    *)
(* the 30-day count and age_in_days are both non-zero and of the neutral    *)
(* ratio 1.0 when either is zero, plus 10 for more than 90 idle days; 150   *)
(* against 450 in a wallet of non-zero age earns the +25 tier.              *)
C18_VelocityTermAgeGuard ==
    Scored =>
        /\ terms[3] = TableVelocity(TRUE)
        /\ (Burst /\ Wallet.age_in_days # 0) => terms[3] >= 25
        /\ (Burst /\ Wallet.age_in_days = 0) => terms[3] < 25

C18_Witness ==
    /\ Scored
    /\ Burst
    /\ Wallet.age_in_days = 0
    /\ Wallet.days_since_last_activity > 90
    /\ terms[3] = 10

----------------------------------------------------------------------------
(* The orchestrator's pipeline *)

(* wallet age 500 days, health factor 2.8, no suspicious pattern, ENS and   *)
(* Gitcoin Passport, volatility index 35 in a calm market, healthy protocol *)
LowRiskScenario ==
    /\ Wallet.age_in_days = 500
    /\ Wallet.lending_borrowing = Some([health_factor |-> 280])
    /\ Wallet.suspicious_patterns = NoPatterns
    /\ Wallet.ens_name = Some("alice.eth")
    /\ Wallet.has_gitcoin_passport
    /\ agent_input.market_volatility = CalmMarket
    /\ agent_input.protocol_health = HealthyProtocol

(* C19: the low-risk scenario scores below 30, is decided NO_ACTION and     *)
(* does not invoke the reasoner, with or without a provider.                *)
C19_LowRiskNoAction ==
    (op = "analyze" /\ LowRiskScenario) =>
        /\ status = "returned"
        /\ base_risk_score < 30
        /\ output.decision = "NO_ACTION"
        /\ ~output.metadata.llm_used
        /\ ~llm_result.invoked
        /\ llm_calls = 0

C19_Witness ==
    /\ Analyzed
    /\ LowRiskScenario
    /\ api_key = Some("sk-key")
    /\ IsNone(Wallet.credit_score)
    /\ base_risk_score = 5
    /\ output.decision = "NO_ACTION"
    /\ ~output.metadata.llm_used

Flagged == map_result[2] \/ map_result[1] = "REQUEST_SEVERITY_ANALYSIS"

(* C20: analyze runs the scorer, then the mapper, then the reasoner exactly *)
(* when the mapper flagged the case; a result built after the reasoner      *)
(* carries the reasoner's decision, risk_score, reasoning and confidence,   *)
(* any other the mapper's decision and the deterministic score.             *)
C20_Pipeline ==
    op = "analyze" =>
        /\ Len(stages) >= 2
        /\ SubSeq(stages, 1, 2) = <<"scorer", "mapper">>
        /\ map_result = map_score_to_decision(base_risk_score, Wallet, agent_input.protocol_health,
                                              agent_input.market_volatility)
        /\ llm_result.invoked <=> Flagged
        /\ (\E i \in 1..Len(stages) : stages[i] = "reasoner") <=> Flagged
        /\ Flagged => (Len(stages) >= 3 /\ stages[3] = "reasoner")
        /\ (status = "returned" /\ Flagged) =>
            /\ output.decision = llm_result.decision
            /\ output.risk_score = llm_result.risk_score
            /\ output.reasoning = llm_result.reasoning
            /\ output.confidence = llm_result.confidence
        /\ (status = "returned" /\ ~Flagged) =>
            /\ output.decision = map_result[1]
            /\ output.risk_score = base_risk_score

C20_Witness ==
    /\ Analyzed
    /\ Flagged
    /\ stages = <<"scorer", "mapper", "reasoner", "scorer">>
    /\ llm_calls = 1
    /\ llm_result.decision = "NO_ACTION"
    /\ output.decision = "NO_ACTION"
    /\ output.risk_score = llm_result.risk_score
    /\ output.risk_score # base_risk_score

(* the items of a list *)
Items(seq) == { seq[i] : i \in 1..Len(seq) }

(* C21: the metadata of every result records whether the reasoner was      *)
(* invoked and the deterministic score of the input, also when the result's *)
(* risk_score is the reasoner's.                                            *)
C21_MetadataKeepsRuleScore ==
    Analyzed =>
        /\ output.metadata.llm_used = llm_result.invoked
        /\ output.metadata.rule_based_score = base_risk_score
        /\ output.metadata.rule_based_score =
               Clamp(Sum8(terms), 0, 100)

C21_Witness ==
    /\ Analyzed
    /\ output.metadata.llm_used
    /\ output.risk_score # base_risk_score
    /\ output.metadata.rule_based_score = base_risk_score
    /\ output.metadata.llm_score = Some(output.risk_score)

(* distance of the deterministic score from the nearest of 30, 60 and 80 *)
BoundaryDistance ==
    LET ds == { IF base_risk_score >= b THEN base_risk_score - b ELSE b - base_risk_score :
                  b \in {30, 60, 80} }
    IN  CHOOSE d \in ds : \A e \in ds : d <= e

(* C22: a result built without the reasoner has confidence 90 when the      *)
(* deterministic score is 10 or more away from 30, 60 and 80, 75 when it is *)
(* 5 to 9 away and 60 when it is closer; no other value occurs.             *)
C22_ConfidenceSteps ==
    (Analyzed /\ ~output.metadata.llm_used) =>
        /\ output.confidence \in {60, 75, 90}
        /\ BoundaryDistance >= 10 => output.confidence = 90
        /\ (BoundaryDistance >= 5 /\ BoundaryDistance < 10) => output.confidence = 75
        /\ BoundaryDistance < 5 => output.confidence = 60

C22_Witness ==
    /\ Analyzed
    /\ ~output.metadata.llm_used
    /\ base_risk_score = 35
    /\ output.confidence = 75

Freeze == "IMMEDIATE: Freeze position pending compliance review"

TopUp == "IMMEDIATE: Suggest collateral top-up"

(* C23: the recommendations of a result contain the compliance freeze       *)
(* whenever the input has the sanctioned-address flag, and the collateral   *)
(* top-up whenever the final decision is ENFORCE_ACTION and the input has a *)
(* lending position with a health factor below 1.2.                         *)
C23_Recommendations ==
    Analyzed =>
        /\ Sanctioned => Freeze \in Items(output.recommendations)
        /\ ( /\ output.decision = "ENFORCE_ACTION"
             /\ Wallet.lending_borrowing # None
             /\ Val(Wallet.lending_borrowing).health_factor < 120 )
           => TopUp \in Items(output.recommendations)

C23_Witness ==
    /\ Analyzed
    /\ Sanctioned
    /\ Wallet.lending_borrowing # None
    /\ Val(Wallet.lending_borrowing).health_factor < 120
    /\ Freeze \in Items(output.recommendations)
    /\ TopUp \in Items(output.recommendations)

(* the flag tokens in the order _extract_flags tests them, each with the   *)
(* group it belongs to                                                      *)
FlagVocabulary ==
    << <<"VERY_NEW_WALLET", 1>>, <<"NEW_WALLET", 1>>,
       <<"RAPID_DRAINAGE", 2>>, <<"MIXER_INTERACTION", 2>>, <<"UNUSUAL_ACTIVITY", 2>>,
       <<"SANCTIONED_ADDRESS", 2>>,
       <<"CRITICAL_HEALTH_FACTOR", 3>>, <<"LOW_HEALTH_FACTOR", 3>>, <<"DECLINING_HEALTH_FACTOR", 3>>,
       <<"HIGH_MARKET_VOLATILITY", 4>>, <<"FLASH_CRASH_ACTIVE", 4>>,
       <<"GITCOIN_VERIFIED", 5>>, <<"HAS_ENS", 5>> >>

(* the position of a token in the vocabulary *)
FlagRank(token) == CHOOSE i \in 1..Len(FlagVocabulary) : FlagVocabulary[i][1] = token

FlagGroup(token) == FlagVocabulary[FlagRank(token)][2]

(* the signal predicate behind a token, over the input alone *)
FlagSignal(token) ==
    LET hf == IF Wallet.lending_borrowing = None THEN 1000
              ELSE Val(Wallet.lending_borrowing).health_factor
    IN CASE token = "VERY_NEW_WALLET" -> Wallet.age_in_days < 7
         [] token = "NEW_WALLET" -> Wallet.age_in_days >= 7 /\ Wallet.age_in_days < 30
         [] token = "RAPID_DRAINAGE" -> Wallet.suspicious_patterns.rapid_draining
         [] token = "MIXER_INTERACTION" -> Wallet.suspicious_patterns.mixer_interaction
         [] token = "UNUSUAL_ACTIVITY" -> Wallet.suspicious_patterns.unusual_activity
         [] token = "SANCTIONED_ADDRESS" -> Wallet.suspicious_patterns.sanctioned_address_interaction
         [] token = "CRITICAL_HEALTH_FACTOR" -> hf < 110
         [] token = "LOW_HEALTH_FACTOR" -> hf >= 110 /\ hf < 130
         [] token = "DECLINING_HEALTH_FACTOR" -> hf >= 130 /\ hf < 150
         [] token = "HIGH_MARKET_VOLATILITY" -> agent_input.market_volatility.volatility_index > 70
         [] token = "FLASH_CRASH_ACTIVE" -> agent_input.market_volatility.flash_crash_detected
         [] token = "GITCOIN_VERIFIED" -> Wallet.has_gitcoin_passport
         [] token = "HAS_ENS" -> Wallet.ens_name \notin {None, Some("")}

FlagTokens == { FlagVocabulary[i][1] : i \in 1..Len(FlagVocabulary) }

(* C24: the flags of a result are tokens of the vocabulary without          *)
(* duplicates, in vocabulary order (age, patterns, health-factor tier,      *)
(* market, reputation), with at most one age flag and at most one           *)
(* health-factor flag, and they are exactly the tokens whose signal         *)
(* predicate holds of the input, whatever the decision, the score or the    *)
(* reasoner did.                                                            *)
C24_Flags ==
    Analyzed =>
        LET flags == output.flags IN
        /\ Items(flags) \subseteq FlagTokens
        /\ \A i, j \in 1..Len(flags) : i < j =>
              /\ flags[i] # flags[j]
              /\ FlagRank(flags[i]) < FlagRank(flags[j])
              /\ FlagGroup(flags[i]) <= FlagGroup(flags[j])
        /\ Cardinality(Items(flags) \cap {"VERY_NEW_WALLET", "NEW_WALLET"}) <= 1
        /\ Cardinality(Items(flags) \cap {"CRITICAL_HEALTH_FACTOR", "LOW_HEALTH_FACTOR",
                                          "DECLINING_HEALTH_FACTOR"}) <= 1
        /\ Items(flags) = { t \in FlagTokens : FlagSignal(t) }

C24_Witness ==
    /\ Analyzed
    /\ output.metadata.llm_used
    /\ output.decision = "NO_ACTION"
    /\ Len(output.flags) >= 4
    /\ output.flags[1] = "MIXER_INTERACTION"
    /\ "HAS_ENS" \in Items(output.flags)

(* C25: within one analyze call the provider is called at most once; it is  *)
(* not called when api_key is None or empty or the mapper did not flag the  *)
(* input; after a failed call the reasoner returns its failure record       *)
(* (MONITOR, confidence 50) without another call.                           *)
C25_SingleProviderCall ==
    op = "analyze" =>
        /\ llm_calls <= 1
        /\ (api_key \in {None, Some("")} \/ ~Flagged) => (llm_calls = 0 /\ provider_outcome = NotCalled)
        /\ ProviderFailed =>
            /\ status = "returned"
            /\ llm_result.decision = "MONITOR"
            /\ llm_result.confidence = 50
            /\ llm_result.reasoning = <<"LLM analysis failed. Defaulting to monitor.">>
            /\ output.decision = "MONITOR"

C25_Witness ==
    /\ Analyzed
    /\ Flagged
    /\ llm_calls = 1
    /\ provider_outcome.kind = "transport_error"
    /\ output.decision = "MONITOR"
    /\ output.confidence = 50

(* C27: the mapper's flag is set exactly with REQUEST_SEVERITY_ANALYSIS, so *)
(* analyze reaches the reasoner only with a deterministic score in 60..79   *)
(* and no critical override, and the reasoner's override for base scores    *)
(* above 85 is never applied in analyze.                                    *)
C27_EscalationBand ==
    op = "analyze" =>
        /\ map_result[2] <=> map_result[1] = "REQUEST_SEVERITY_ANALYSIS"
        /\ llm_result.invoked =>
            /\ base_risk_score >= 60 /\ base_risk_score < 80
            /\ ~CriticalOverride
            /\ OverrideNote \notin Items(llm_result.reasoning)
            /\ (Parsed /\ llm_calls = 1) =>
                   (llm_result.decision = GivenDecision /\ llm_result.confidence = GivenConfidence)

C27_Witness ==
    /\ Analyzed
    /\ llm_result.invoked
    /\ base_risk_score = 75
    /\ Parsed
    /\ GivenDecision = "NO_ACTION"
    /\ GivenConfidence = 85
    /\ output.decision = "NO_ACTION"
    /\ output.confidence = 85

(* C28: with api_key None the decision of a result is never                 *)
(* REQUEST_SEVERITY_ANALYSIS: an input the mapper found ambiguous ends in   *)
(* MONITOR for a deterministic score in 60..74 and in ENFORCE_ACTION for    *)
(* 75..79, with confidence 60 and the deterministic score as risk_score.    *)
C28_NoProviderResolves ==
    (op = "analyze" /\ IsNone(api_key)) =>
        /\ status = "returned"
        /\ output.decision # "REQUEST_SEVERITY_ANALYSIS"
        /\ map_result[1] = "REQUEST_SEVERITY_ANALYSIS" =>
            /\ (base_risk_score >= 60 /\ base_risk_score < 75) => output.decision = "MONITOR"
            /\ (base_risk_score >= 75 /\ base_risk_score < 80) => output.decision = "ENFORCE_ACTION"
            /\ output.confidence = 60
            /\ output.risk_score = base_risk_score

C28_Witness ==
    /\ Analyzed
    /\ IsNone(api_key)
    /\ map_result = <<"REQUEST_SEVERITY_ANALYSIS", TRUE>>
    /\ base_risk_score = 75
    /\ output.decision = "ENFORCE_ACTION"
    /\ output.confidence = 60
    /\ output.risk_score = 75

(* C29: in every result metadata.llm_score is the result's risk_score (the  *)
(* fused score, not the provider's) when llm_used is true; when llm_used is *)
(* false llm_score is None and rule_based_score is the result's risk_score. *)
C29_MetadataScores ==
    Analyzed =>
        /\ output.metadata.llm_used =>
            /\ output.metadata.llm_score = Some(output.risk_score)
            /\ output.risk_score = llm_result.risk_score
            /\ 10 * Val(output.metadata.llm_score) = 4 * base_risk_score + 6 * EscalatedScore
        /\ ~output.metadata.llm_used =>
            /\ output.metadata.llm_score = None
            /\ output.metadata.rule_based_score = output.risk_score

C29_Witness ==
    /\ Analyzed
    /\ output.metadata.llm_used
    /\ Parsed
    /\ provider_outcome.risk_score = JNum(90)
    /\ base_risk_score = 65
    /\ output.metadata.llm_score = Some(80)
    /\ output.risk_score = 80

----------------------------------------------------------------------------
(* C30: process_wallet_analysis runs its phases in the order local          *)
(* analysis, then iExec analysis, then contract submission; the iExec       *)
(* analysis runs exactly when the local decision is                         *)
(* REQUEST_SEVERITY_ANALYSIS or the local risk score is at least 60; the    *)
(* result is submitted exactly when the final risk score is at least 25,    *)
(* and then exactly one record, carrying the request id and the returned    *)
(* analysis, is appended to submitted_results and its receipt is the        *)
(* returned transaction; below 25 submitted_results is what it was at entry *)
(* and the returned transaction is None.                                    *)
PhaseOrders ==
    { <<>>, <<"local">>, <<"local", "iexec">>, <<"local", "submit">>, <<"local", "iexec", "submit">> }

RanIExec == "iexec" \in Items(phases_run)

Submitted == "submit" \in Items(phases_run)

C30_PhaseOrder ==
    /\ phases_run \in PhaseOrders
    /\ phase \in {"analysed", "final"} => submitted_results = submitted_at_entry
    /\ phase \in {"final", "done"} =>
        /\ RanIExec <=> (local_result.decision = "REQUEST_SEVERITY_ANALYSIS" \/ local_result.risk_score >= 600)
        /\ ~RanIExec => final_result = local_result
    /\ phase = "done" =>
        /\ Submitted <=> final_result.risk_score >= 250
        /\ Submitted =>
            /\ Len(submitted_results) = Len(submitted_at_entry) + 1
            /\ SubSeq(submitted_results, 1, Len(submitted_at_entry)) = submitted_at_entry
            /\ submitted_results[Len(submitted_results)].task_id = wallet_request.request_id
            /\ submitted_results[Len(submitted_results)].result = Val(returned).analysis
            /\ Val(returned).transaction = Some(submitted_results[Len(submitted_results)].receipt)
        /\ ~Submitted =>
            /\ submitted_results = submitted_at_entry
            /\ Val(returned).transaction = None

(* a second call that went through all three phases *)
C30_Witness ==
    /\ phase = "done"
    /\ phases_run = <<"local", "iexec", "submit">>
    /\ Len(submitted_at_entry) = 1
    /\ Len(submitted_results) = 2

(* a call whose local analysis was sufficient and below 25 *)
C30_WitnessLowRisk ==
    /\ phase = "done"
    /\ phases_run = <<"local">>
    /\ Len(submitted_at_entry) = 1
    /\ Val(returned).transaction = None

----------------------------------------------------------------------------
(* C26: analyze calls that share the server's orchestrator and interleave   *)
(* statement by statement each end as they do alone on the same input with  *)
(* the same provider response: the same decision, risk_score, confidence,   *)
(* flags and recommendations, or the same exception; at every statement     *)
(* the locals of a call are those of its own input.                         *)
ResultFields(out) ==
    <<out.decision, out.risk_score, out.confidence, out.flags, out.recommendations>>

AloneRaises(c) ==
    /\ NeedsLLM(calls[c].agent_input)
    /\ LLMAnalyze(api_key, calculate_risk_score(calls[c].agent_input), calls[c].provider_outcome).raised

C26_CallsIsolated ==
    \A c \in CallIds :
        /\ calls[c].pc \in {"scored", "mapped", "reasoned", "returned", "raised"} =>
            calls[c].risk_score = calculate_risk_score(calls[c].agent_input)
        /\ calls[c].pc \in {"mapped", "reasoned", "returned", "raised"} =>
            <<calls[c].decision, calls[c].needs_llm>> = RuleStage(calls[c].agent_input)
        /\ calls[c].pc = "returned" =>
            /\ ~AloneRaises(c)
            /\ ResultFields(calls[c].output)
                 = ResultFields(AnalyzeResult(api_key, calls[c].agent_input, calls[c].provider_outcome))
        /\ calls[c].pc = "raised" => AloneRaises(c)

(* two escalated calls in progress together, on different wallets and with  *)
(* different provider replies, both returned                                *)
C26_Witness ==
    /\ calls[1].pc = "returned"
    /\ calls[2].pc = "returned"
    /\ calls[1].output.metadata.llm_used
    /\ calls[2].output.metadata.llm_used
    /\ calls[1].agent_input # calls[2].agent_input
    /\ calls[1].provider_outcome # calls[2].provider_outcome
    /\ calls[1].output.decision # calls[2].output.decision

(* a call that raised while the other was between two statements *)
C26_WitnessRaised ==
    /\ calls[1].pc = "raised"
    /\ calls[2].pc = "scored"

====
